---- MODULE Spec2Model ----
(***************************************************************************)
(* A model of gobox: package async (src/pkg/async/async.go: TaskGroup,     *)
(* RunGroup / RunClose, MutexWithContext; Shutdown; AsyncTask), the        *)
(* cronjob and loglevelswitcher service activities                         *)
(* (src/pkg/serviceactivities) and the worker pool of package async/pool.  *)
(*                                                                         *)
(* Every component has a specification of its own (SpecTG, SpecLoop,       *)
(* SpecLoopErr, SpecCalls, SpecRG, SpecMx, SpecMxExtra, SpecMxLive,        *)
(* SpecSd, SpecCr, SpecPl, SpecAt, SpecLs); a specification leaves the     *)
(* variables of the other components at their initial values. SpecClose    *)
(* has the Shutdown and the Close of the cronjob activity side by side.    *)
(*                                                                         *)
(* sync.WaitGroup, context.Context, os/signal, golang.org/x/sync/errgroup, *)
(* golang.org/x/sync/semaphore and github.com/robfig/cron/v3 are libraries *)
(* the code calls; they are modelled at the call sites by their library    *)
(* behaviour, one action per critical section of the library. Where        *)
(* releases of semaphore.Weighted differ (a done ctx seen by Acquire       *)
(* before or after the permit is taken) the model allows the outcomes of   *)
(* both.                                                                   *)
(***************************************************************************)
EXTENDS Integers, Sequences, FiniteSets

(***************************************************************************)
(* Bounds of the model.                                                    *)
(***************************************************************************)
\* Number of Run/Loop invocations made on the TaskGroup.
MaxTasks == 2
\* Cap on the runner invocations of one Run/Loop invocation.
MaxCalls == 2

\* Number of runners handed to RunGroup.
MaxMembers == 2

\* Number of goroutines that use the MutexWithContext.
MaxGoroutines == 3
\* Number of Unlock calls made without a matching Lock.
MaxExtra == 1
\* semaphore.NewWeighted(1)
SemSize == 1

\* Number of Run calls made on the Shutdown.
MaxRuns == 1
\* Number of termination signals sent to the process.
MaxSignals == 2

\* Number of ticks of the cron schedule.
MaxTicks == 2

\* Largest capacity a WorkerPool is made with.
MaxPoolSize == 1
\* Number of Schedule calls made on the WorkerPool.
MaxSubs == 2

\* Largest number of replicas an AsyncTask is made with.
MaxReplicas == 2

Tasks == 1..MaxTasks
Goroutines == 1..MaxGoroutines
Members == 1..MaxMembers
\* What the type switch of RunClose finds a runner to be.
CloseKinds == {"Closer", "ioCloser", "none"}
\* What a member's Run returns: nil, an error of its own, or ctx.Err() of
\* the done context.
MemberResults == {"nil", "err", "ctxerr"}
\* The context handed to Run/Loop: it can end by cancel or by deadline.
Ctxs == {"ctx"}
\* ctx.Err(): nil while the context is live.
CtxErrs == {"nil", "Canceled", "DeadlineExceeded"}
\* What a runner's Run returns ("Other": any error that is neither of the
\* context errors).
Results == {"nil", "Canceled", "DeadlineExceeded", "Other"}
\* A runner is either arbitrary (-1) or the runner of
\* TestTaskGroup_LoopWithError: nil k times, then an error.
Arbitrary == 0 - 1
Scripts == {Arbitrary} \cup (0..(MaxCalls - 1))
\* The runner that returns context.Canceled from every call, whatever the
\* state of the ctx it is given (-2).
Canceling == 0 - 2
\* The Run calls made on the Shutdown.
Runs == 1..MaxRuns
\* syscall.SIGINT, syscall.SIGTERM, syscall.SIGHUP as fmt prints them.
Signals == {"interrupt", "terminated", "hangup"}
\* The executions of the cron job, one per tick.
Execs == 1..MaxTicks
\* The submissions (Schedule calls) made on the WorkerPool.
Subs == 1..MaxSubs
\* The replicas of an AsyncTask.
Replicas == 1..MaxReplicas

VARIABLES
    wgCount,    \* TaskGroup.WaitGroup: the counter
    ctxErr,     \* ctx.Err() of every context
    tkind,      \* per invocation: "none", "run" (Run) or "loop" (Loop)
    tpc,        \* per invocation: where its goroutine is
    tctx,       \* per invocation: the ctx argument
    tscript,    \* per invocation: the runner argument
    tcalls,     \* per invocation: r.Run calls started
    terr,       \* per invocation: what the last r.Run returned
    tfromctx,   \* per invocation: terr is ctx.Err() of the ended ctx
    tlogged,    \* per invocation: whether log.Error reported terr
    wpc,        \* the caller of Wait: "idle", "blocked", "woken", "returned"
    wsnap       \* the invocations in progress when Wait was called

tgVars == <<wgCount, ctxErr, tkind, tpc, tctx, tscript, tcalls, terr,
            tfromctx, tlogged, wpc, wsnap>>

VARIABLES
    rgpc,       \* the Run of the group: "idle", "spawning", "waiting", "returned"
    rgret,      \* what the Run of the group returned
    gdone,      \* the context of errgroup.WithContext is done
    gwg,        \* the errgroup's WaitGroup counter
    gerr,       \* the errgroup's err: the member whose error it holds, or 0
    firstErr,   \* the member whose Run was the first to return an error, or 0
    mkind,      \* per member: what the type switch of RunClose finds
    mpc,        \* per member: where its goroutine is
    mres,       \* per member: what its Run returned
    mclosed,    \* per member: calls of its Close
    mcres,      \* per member: what its Close returned
    mclogged    \* per member: whether log.Error reported mcres

rgVars == <<rgpc, rgret, gdone, gwg, gerr, firstErr, mkind, mpc, mres, mclosed,
            mcres, mclogged>>

VARIABLES
    semCur,     \* semaphore.Weighted: cur
    waiters,    \* semaphore.Weighted: the waiters, a queue of goroutines
    ready,      \* per goroutine: its waiter's ready channel is closed
    lpc,        \* per goroutine: "idle", "waiting" (in Lock), "holding" (Lock
                \* returned nil), "failed" (Lock returned an error)
    lctxdone,   \* per goroutine: the ctx of its Lock call is done
    uout,       \* the outcome of the last Unlock: "none", "ok", "panic"
    extra,      \* Unlock calls made without a matching Lock
    stolen      \* an Unlock without a matching Lock returned normally

mxVars == <<semCur, waiters, ready, lpc, lctxdone, uout, extra, stolen>>

VARIABLES
    sdDone,     \* Shutdown: the done channel is closed
    sdCalled,   \* Close has been called
    sdPanic,    \* a Close panicked (close of a closed channel)
    handlers,   \* os/signal: the Run calls whose channel c is registered
    killed,     \* a signal nobody was registered for has ended the process
    signals,    \* signals sent to the process so far
    sdpc,       \* per Run call: "idle", "select" (blocked in the select),
                \* "reset" (signal taken, signal.Reset done), "returned"
    sdctx,      \* per Run call: ctx.Err() of its ctx
    sdchan,     \* per Run call: what its channel c holds ("none": empty)
    sdgot,      \* per Run call: the signals delivered to c so far
    sdsig,      \* per Run call: sig, between the select and the return
    sdret,      \* per Run call: what it returned
    sdlate      \* per Run call: Close had been called when it started

sdVars == <<sdDone, sdCalled, sdPanic, handlers, killed, signals, sdpc, sdctx,
            sdchan, sdgot, sdsig, sdret, sdlate>>

VARIABLES
    crRunning,  \* cron.Cron: running (its dispatch loop is on)
    crEntries,  \* cron.Cron: the entries added
    jobsMade,   \* calls of the job factory sa.NewJob
    jkind,      \* what the type switch of RunClose finds the job to be
    jclosed,    \* calls of the job's Close
    crctx,      \* ctx.Err() of the ctx handed to Run
    saDone,     \* ServiceActivity.done is closed
    saPanic,    \* a Close of the activity panicked
    sapc,       \* Run: "idle", "added" (before cron.Start), "select",
                \* "stopping" (select left), "draining" (cron stopped),
                \* "returned"
    sacause,    \* the select case taken: "none", "ctx", "done", "err"
    sasel,      \* err after the select
    saclose,    \* err2, the result of RunClose
    saret,      \* what Run returned
    cwpc,       \* the goroutine of lines 57-60: "none", "waiting", "done"
    errCh,      \* what the buffer of errCh (capacity 1) holds
    ticks,      \* ticks dispatched so far
    epc,        \* per execution: "none", "running" (in job.Run),
                \* "sending" (at errCh <- err), "done"
    eres,       \* per execution: what job.Run returned
    salog       \* the errors Run has reported to the log

crVars == <<crRunning, crEntries, jobsMade, jkind, jclosed, crctx, saDone,
            saPanic, sapc, sacause, sasel, saclose, saret, cwpc, errCh, ticks,
            epc, eres, salog>>

VARIABLES
    plN,        \* WorkerPool: its capacity (0: not made yet)
    plctx,      \* ctx.Err() of the parent context of the pool
    ppc,        \* per submission: "none", "blocked" (in Schedule, waiting
                \* for a slot), "running" (admitted, its task executes),
                \* "finished" (its task returned), "ended" (its Schedule
                \* ended because a context ended; its task is invoked
                \* with the ended context), "refused" (that invocation
                \* returned)
    psctx,      \* per submission: ctx.Err() of the ctx handed to Schedule
    pobs,       \* per submission: ctx.Err() as its task finds it when it
                \* is invoked ("none": not invoked yet)
    pwpc,       \* the wait function of WithWait: "idle", "waiting",
                \* "returned"
    pwsnap      \* the number of submissions made when wait was called

plVars == <<plN, plctx, ppc, psctx, pobs, pwpc, pwsnap>>

VARIABLES
    atpc,       \* AsyncTask.Run: "idle", "spawning" (in the for loop),
                \* "waiting" (in at.Wait), "closing", "returned"
    atN,        \* the replicas field
    atctx,      \* ctx.Err() of the ctx handed to Run
    atcancel,   \* cancel() of ctx2 was called
    atwg,       \* the WaitGroup counter of the embedded TaskGroup
    atloops,    \* at.Loop calls made
    rpc,        \* per replica: "none", "head", "checked", "running",
                \* "exiting", "done"
    aterr,      \* a call of at.f has returned an error
    atsd,       \* the goroutine of shutdown.Run: "none", "start", "select",
                \* "reset", "erred" (Run returned an error), "ended"
    atreg,      \* the channel of shutdown.Run is registered for the signals
    atchan,     \* a signal is in that channel
    atgot,      \* shutdown.Run took a signal from its channel
    atkilled,   \* the default action of a signal ended the process
    atcloses    \* calls of shutdown.Close

atVars == <<atpc, atN, atctx, atcancel, atwg, atloops, rpc, aterr, atsd,
            atreg, atchan, atgot, atkilled, atcloses>>

VARIABLES
    lspc,       \* loglevelswitcher, the Run call: "idle", "select", "returned"
    lsruns,     \* Run calls made on the activity, one after the other
    lsctx,      \* ctx.Err() of the ctx of the Run call
    lsDone,     \* sa.done is closed
    lsPanic,    \* a Close panicked (close of a closed channel)
    lson,       \* sa.debugLevelOn
    lslast,     \* the level of the last logger.SetLevel call, or "none"
    lsn,        \* signals handled since New
    lssent,     \* signals sent to the process
    lsreg,      \* a channel of the activity is registered for sa.signal
    lschan,     \* a signal is in the channel c of the Run call
    lskilled,   \* the default action of the signal ended the process
    lscause,    \* the case that ended the Run call: "none", "ctx", "done"
    lsret       \* what the Run call returned

lsVars == <<lspc, lsruns, lsctx, lsDone, lsPanic, lson, lslast, lsn, lssent,
            lsreg, lschan, lskilled, lscause, lsret>>

vars == <<tgVars, rgVars, mxVars, sdVars, crVars, plVars, atVars, lsVars>>

\* The variables of the other components.
notTG == <<rgVars, mxVars, sdVars, crVars, plVars, atVars, lsVars>>
notRG == <<tgVars, mxVars, sdVars, crVars, plVars, atVars, lsVars>>
notMx == <<tgVars, rgVars, sdVars, crVars, plVars, atVars, lsVars>>
notSd == <<tgVars, rgVars, mxVars, crVars, plVars, atVars, lsVars>>
notCr == <<tgVars, rgVars, mxVars, sdVars, plVars, atVars, lsVars>>
notPl == <<tgVars, rgVars, mxVars, sdVars, crVars, atVars, lsVars>>
notAt == <<tgVars, rgVars, mxVars, sdVars, crVars, plVars, lsVars>>
notLs == <<tgVars, rgVars, mxVars, sdVars, crVars, plVars, atVars>>

(***************************************************************************)
(* TaskGroup                                                               *)
(***************************************************************************)
InitTG ==
    /\ wgCount = 0
    /\ ctxErr = [c \in Ctxs |-> "nil"]
    /\ tkind = [t \in Tasks |-> "none"]
    /\ tpc = [t \in Tasks |-> "unused"]
    /\ tctx = [t \in Tasks |-> "ctx"]
    /\ tscript = [t \in Tasks |-> Arbitrary]
    /\ tcalls = [t \in Tasks |-> 0]
    /\ terr = [t \in Tasks |-> "none"]
    /\ tfromctx = [t \in Tasks |-> FALSE]
    /\ tlogged = [t \in Tasks |-> FALSE]
    /\ wpc = "idle"
    /\ wsnap = {}

InitRG ==
    /\ rgpc = "idle"
    /\ rgret = "none"
    /\ gdone = FALSE
    /\ gwg = 0
    /\ gerr = 0
    /\ firstErr = 0
    /\ mkind = [i \in Members |-> "none"]
    /\ mpc = [i \in Members |-> "unstarted"]
    /\ mres = [i \in Members |-> "none"]
    /\ mclosed = [i \in Members |-> 0]
    /\ mcres = [i \in Members |-> "none"]
    /\ mclogged = [i \in Members |-> FALSE]

\* NewMutexWithContext
InitMx ==
    /\ semCur = 0
    /\ waiters = <<>>
    /\ ready = [g \in Goroutines |-> FALSE]
    /\ lpc = [g \in Goroutines |-> "idle"]
    /\ lctxdone = [g \in Goroutines |-> FALSE]
    /\ uout = "none"
    /\ extra = 0
    /\ stolen = FALSE

\* NewShutdown
InitSd ==
    /\ sdDone = FALSE
    /\ sdCalled = FALSE
    /\ sdPanic = FALSE
    /\ handlers = {}
    /\ killed = FALSE
    /\ signals = 0
    /\ sdpc = [r \in Runs |-> "idle"]
    /\ sdctx = [r \in Runs |-> "nil"]
    /\ sdchan = [r \in Runs |-> "none"]
    /\ sdgot = [r \in Runs |-> {}]
    /\ sdsig = [r \in Runs |-> "none"]
    /\ sdret = [r \in Runs |-> "none"]
    /\ sdlate = [r \in Runs |-> FALSE]

\* cronjob.New
InitCr ==
    /\ crRunning = FALSE
    /\ crEntries = 0
    /\ jobsMade = 0
    /\ jkind = "none"
    /\ jclosed = 0
    /\ crctx = "nil"
    /\ saDone = FALSE
    /\ saPanic = FALSE
    /\ sapc = "idle"
    /\ sacause = "none"
    /\ sasel = "none"
    /\ saclose = "none"
    /\ saret = "none"
    /\ cwpc = "none"
    /\ errCh = "none"
    /\ ticks = 0
    /\ epc = [k \in Execs |-> "none"]
    /\ eres = [k \in Execs |-> "none"]
    /\ salog = {}

\* Before pool.New
InitPl ==
    /\ plN = 0
    /\ plctx = "nil"
    /\ ppc = [u \in Subs |-> "none"]
    /\ psctx = [u \in Subs |-> "nil"]
    /\ pobs = [u \in Subs |-> "none"]
    /\ pwpc = "idle"
    /\ pwsnap = 0

\* NewAsyncTask, before Run
InitAt ==
    /\ atpc = "idle"
    /\ atN = 0
    /\ atctx = "nil"
    /\ atcancel = FALSE
    /\ atwg = 0
    /\ atloops = 0
    /\ rpc = [i \in Replicas |-> "none"]
    /\ aterr = FALSE
    /\ atsd = "none"
    /\ atreg = FALSE
    /\ atchan = FALSE
    /\ atgot = FALSE
    /\ atkilled = FALSE
    /\ atcloses = 0

\* loglevelswitcher.New
InitLs ==
    /\ lspc = "idle"
    /\ lsruns = 0
    /\ lsctx = "nil"
    /\ lsDone = FALSE
    /\ lsPanic = FALSE
    /\ lson = FALSE
    /\ lslast = "none"
    /\ lsn = 0
    /\ lssent = 0
    /\ lsreg = FALSE
    /\ lschan = FALSE
    /\ lskilled = FALSE
    /\ lscause = "none"
    /\ lsret = "none"

Init ==
    InitTG /\ InitRG /\ InitMx /\ InitSd /\ InitCr /\ InitPl /\ InitAt /\ InitLs

\* errors.Is(err, context.Canceled)
IsCanceled(err) == err = "Canceled"

\* A changed ShouldLog: the errors.Is test is left out.
ShouldLogAll(err) == err # "nil"

\* The condition of the if statement of Run and of Loop's run closure.
ShouldLog(err) == err # "nil" /\ ~IsCanceled(err)

\* WaitGroup.Add(1)
WaitGroupAdd(n) == n + 1

\* A changed WaitGroupDone: the deferred Done is left out.
WaitGroupDoneMissing(n) == n

\* WaitGroup.Done()
WaitGroupDone(n) == n - 1

\* Invocations are numbered in the order of their WaitGroup.Add.
NextTask(t) == tpc[t] = "unused" /\ \A u \in Tasks : u < t => tpc[u] # "unused"

\* TaskGroup.Run: Add(1), then the go statement; the goroutine is about to
\* call r.Run.
TGRun(t, c) ==
    /\ NextTask(t)
    /\ wgCount' = WaitGroupAdd(wgCount)
    /\ tkind' = [tkind EXCEPT ![t] = "run"]
    /\ tpc' = [tpc EXCEPT ![t] = "checked"]
    /\ tctx' = [tctx EXCEPT ![t] = c]
    /\ UNCHANGED <<ctxErr, tscript, tcalls, terr, tfromctx, tlogged, wpc, wsnap>>
    /\ UNCHANGED notTG

\* TaskGroup.Loop: Add(1), then the go statement; the goroutine is at the
\* head of its for loop.
TGLoop(t, c, s) ==
    /\ NextTask(t)
    /\ wgCount' = WaitGroupAdd(wgCount)
    /\ tkind' = [tkind EXCEPT ![t] = "loop"]
    /\ tpc' = [tpc EXCEPT ![t] = "head"]
    /\ tctx' = [tctx EXCEPT ![t] = c]
    /\ tscript' = [tscript EXCEPT ![t] = s]
    /\ UNCHANGED <<ctxErr, tcalls, terr, tfromctx, tlogged, wpc, wsnap>>
    /\ UNCHANGED notTG

\* A changed LoopCond: the loop does not look at ctx.
LoopCondAlways(c) == TRUE

\* The loop condition ctx.Err() == nil.
LoopCond(c) == ctxErr[c] = "nil"

\* for ctx.Err() == nil { ... }: one evaluation of the condition. The err of
\* the iteration before is out of scope.
LoopCheck(t) ==
    /\ tpc[t] = "head"
    /\ tpc' = [tpc EXCEPT ![t] = IF LoopCond(tctx[t]) THEN "checked" ELSE "exiting"]
    /\ terr' = [terr EXCEPT ![t] = "none"]
    /\ tfromctx' = [tfromctx EXCEPT ![t] = FALSE]
    /\ tlogged' = [tlogged EXCEPT ![t] = FALSE]
    /\ UNCHANGED <<wgCount, ctxErr, tkind, tctx, tscript, tcalls, wpc, wsnap>>
    /\ UNCHANGED notTG

\* trace.StartSpan and the call r.Run(ctx2).
TaskInvoke(t) ==
    /\ tpc[t] = "checked"
    /\ tcalls[t] < MaxCalls
    /\ tpc' = [tpc EXCEPT ![t] = "running"]
    /\ tcalls' = [tcalls EXCEPT ![t] = @ + 1]
    /\ UNCHANGED <<wgCount, ctxErr, tkind, tctx, tscript, terr, tfromctx, tlogged, wpc, wsnap>>
    /\ UNCHANGED notTG

\* What the runner of invocation t may return from its call number tcalls[t].
RunnerResults(t) ==
    IF tscript[t] = Arbitrary THEN Results
    ELSE IF tscript[t] = Canceling THEN {"Canceled"}
    ELSE IF tcalls[t] <= tscript[t] THEN {"nil"} ELSE {"Other"}

\* r.Run returns.
RunnerReturn(t, v) ==
    /\ tpc[t] = "running"
    /\ v \in RunnerResults(t)
    /\ tpc' = [tpc EXCEPT ![t] = "returned"]
    /\ terr' = [terr EXCEPT ![t] = v]
    /\ tfromctx' = [tfromctx EXCEPT ![t] = v # "nil" /\ v = ctxErr[tctx[t]]]
    /\ tlogged' = [tlogged EXCEPT ![t] = FALSE]
    /\ UNCHANGED <<wgCount, ctxErr, tkind, tctx, tscript, tcalls, wpc, wsnap>>
    /\ UNCHANGED notTG

\* A changed AfterHandle: the run closure returns false after logging too.
AfterHandleNoBreak(kind, err) == IF kind = "run" THEN "exiting" ELSE "head"

\* Where the goroutine goes after the if statement: Run falls to its
\* deferred calls; Loop's run closure returns true (break) when it logged
\* and false (next iteration) otherwise.
AfterHandle(kind, err) ==
    IF kind = "run" THEN "exiting"
    ELSE IF ShouldLog(err) THEN "exiting" ELSE "head"

\* if err := r.Run(ctx2); err != nil && !errors.Is(err, context.Canceled)
\*     { log.Error(...) }
Handle(t) ==
    /\ tpc[t] = "returned"
    /\ tlogged' = [tlogged EXCEPT ![t] = ShouldLog(terr[t])]
    /\ tpc' = [tpc EXCEPT ![t] = AfterHandle(tkind[t], terr[t])]
    /\ UNCHANGED <<wgCount, ctxErr, tkind, tctx, tscript, tcalls, terr,
                   tfromctx, wpc, wsnap>>
    /\ UNCHANGED notTG

\* WaitGroup.Done wakes every blocked Wait when the counter reaches zero.
WakeWaiters(n, w) == IF n = 0 /\ w = "blocked" THEN "woken" ELSE w

\* defer t.WaitGroup.Done(): the goroutine ends.
TaskExit(t) ==
    /\ tpc[t] = "exiting"
    /\ wgCount' = WaitGroupDone(wgCount)
    /\ wpc' = WakeWaiters(wgCount', wpc)
    /\ tpc' = [tpc EXCEPT ![t] = "done"]
    /\ UNCHANGED <<ctxErr, tkind, tctx, tscript, tcalls, terr, tfromctx, tlogged, wsnap>>
    /\ UNCHANGED notTG

\* cancel() of a context, or its deadline passing.
CtxEnd(c, e) ==
    /\ ctxErr[c] = "nil"
    /\ e \in {"Canceled", "DeadlineExceeded"}
    /\ ctxErr' = [ctxErr EXCEPT ![c] = e]
    /\ UNCHANGED <<wgCount, tkind, tpc, tctx, tscript, tcalls, terr,
                   tfromctx, tlogged, wpc, wsnap>>
    /\ UNCHANGED notTG

\* The invocations whose Run/Loop call was made and whose goroutine has not
\* ended.
InFlight == {t \in Tasks : tpc[t] \notin {"unused", "done"}}

\* A changed WaitEnter: Wait does not look at the counter.
WaitEnterNoBlock(n) == "returned"

\* WaitGroup.Wait: returns at once when the counter is zero, blocks otherwise.
WaitEnter(n) == IF n = 0 THEN "returned" ELSE "blocked"

\* TaskGroup.Wait is called.
WaitCall ==
    /\ wpc = "idle"
    /\ wsnap' = InFlight
    /\ wpc' = WaitEnter(wgCount)
    /\ UNCHANGED <<wgCount, ctxErr, tkind, tpc, tctx, tscript, tcalls, terr, tfromctx, tlogged>>
    /\ UNCHANGED notTG

\* A woken Wait returns.
WaitReturn ==
    /\ wpc = "woken"
    /\ wpc' = "returned"
    /\ UNCHANGED <<wgCount, ctxErr, tkind, tpc, tctx, tscript, tcalls, terr, tfromctx, tlogged, wsnap>>
    /\ UNCHANGED notTG

\* Run and Loop invocations with arbitrary runners, and one caller of Wait.
NextTG ==
    \/ \E t \in Tasks, c \in Ctxs : TGRun(t, c)
    \/ \E t \in Tasks, c \in Ctxs : TGLoop(t, c, Arbitrary)
    \/ \E t \in Tasks : LoopCheck(t)
    \/ \E t \in Tasks : TaskInvoke(t)
    \/ \E t \in Tasks, v \in Results : RunnerReturn(t, v)
    \/ \E t \in Tasks : Handle(t)
    \/ \E t \in Tasks : TaskExit(t)
    \/ \E c \in Ctxs, e \in CtxErrs : CtxEnd(c, e)
    \/ WaitCall
    \/ WaitReturn

SpecTG == Init /\ [][NextTG]_vars

\* One Loop invocation whose runner returns nil k times and then an error
\* (TestTaskGroup_LoopWithError), and one caller of Wait.
NextLoop ==
    \/ \E c \in Ctxs, k \in Scripts \ {Arbitrary} : TGLoop(1, c, k)
    \/ LoopCheck(1)
    \/ TaskInvoke(1)
    \/ \E v \in Results : RunnerReturn(1, v)
    \/ Handle(1)
    \/ TaskExit(1)
    \/ \E c \in Ctxs, e \in CtxErrs : CtxEnd(c, e)
    \/ WaitCall
    \/ WaitReturn

\* The goroutine's own steps are scheduled, the runner of the test returns,
\* and a woken Wait returns.
FairLoop ==
    /\ WF_vars(LoopCheck(1))
    /\ WF_vars(TaskInvoke(1))
    /\ WF_vars(\E v \in Results : RunnerReturn(1, v))
    /\ WF_vars(Handle(1))
    /\ WF_vars(TaskExit(1))
    /\ WF_vars(WaitReturn)

SpecLoop == Init /\ [][NextLoop]_vars /\ FairLoop

\* One Loop invocation whose runner fails: after k calls, or with
\* context.Canceled from the first call on; and one caller of Wait.
NextLoopErr ==
    \/ \E c \in Ctxs, k \in (Scripts \ {Arbitrary}) \cup {Canceling} :
          TGLoop(1, c, k)
    \/ LoopCheck(1)
    \/ TaskInvoke(1)
    \/ \E v \in Results : RunnerReturn(1, v)
    \/ Handle(1)
    \/ TaskExit(1)
    \/ \E c \in Ctxs, e \in CtxErrs : CtxEnd(c, e)
    \/ WaitCall
    \/ WaitReturn

SpecLoopErr == Init /\ [][NextLoopErr]_vars /\ FairLoop

\* A Loop invocation and then a Run invocation, both with arbitrary runners,
\* on a ctx that may end at any time, before the calls too; and one caller of
\* Wait.
NextCalls ==
    \/ \E c \in Ctxs : TGLoop(1, c, Arbitrary)
    \/ \E c \in Ctxs : TGRun(2, c)
    \/ \E t \in {1, 2} : LoopCheck(t)
    \/ \E t \in {1, 2} : TaskInvoke(t)
    \/ \E t \in {1, 2}, v \in Results : RunnerReturn(t, v)
    \/ \E t \in {1, 2} : Handle(t)
    \/ \E t \in {1, 2} : TaskExit(t)
    \/ \E c \in Ctxs, e \in CtxErrs : CtxEnd(c, e)
    \/ WaitCall
    \/ WaitReturn

SpecCalls == Init /\ [][NextCalls]_vars

(***************************************************************************)
(* RunGroup                                                                *)
(***************************************************************************)
\* RunGroup(rg).Run(ctx) is called: errgroup.WithContext derives the context
\* of the group; the runners rg are the input.
RGRun(kinds) ==
    /\ rgpc = "idle"
    /\ rgpc' = "spawning"
    /\ mkind' = kinds
    /\ UNCHANGED <<rgret, gdone, gwg, gerr, firstErr, mpc, mres, mclosed, mcres,
                   mclogged>>
    /\ UNCHANGED notRG

\* for idx := range rg { g.Go(...) }: the next member's goroutine is started
\* and calls r.Run(ctx).
RGGo(i) ==
    /\ rgpc = "spawning"
    /\ mpc[i] = "unstarted"
    /\ \A j \in Members : j < i => mpc[j] # "unstarted"
    /\ gwg' = gwg + 1
    /\ mpc' = [mpc EXCEPT ![i] = "running"]
    /\ UNCHANGED <<rgpc, rgret, gdone, gerr, firstErr, mkind, mres, mclosed,
                   mcres, mclogged>>
    /\ UNCHANGED notRG

\* g.Wait() is called after the loop.
RGWait ==
    /\ rgpc = "spawning"
    /\ \A i \in Members : mpc[i] # "unstarted"
    /\ rgpc' = "waiting"
    /\ UNCHANGED <<rgret, gdone, gwg, gerr, firstErr, mkind, mpc, mres, mclosed,
                   mcres, mclogged>>
    /\ UNCHANGED notRG

\* The ctx handed to the group's Run is cancelled: so is the derived context.
RGParentCancel ==
    /\ rgpc \in {"spawning", "waiting"}
    /\ ~gdone
    /\ gdone' = TRUE
    /\ UNCHANGED <<rgpc, rgret, gwg, gerr, firstErr, mkind, mpc, mres, mclosed,
                   mcres, mclogged>>
    /\ UNCHANGED notRG

\* return r.Run(ctx): the member's Run returns; a member may return at any
\* time, and ctx.Err() only once ctx is done.
MemberReturn(i, r) ==
    /\ mpc[i] = "running"
    /\ r = "ctxerr" => gdone
    /\ mpc' = [mpc EXCEPT ![i] = "returned"]
    /\ mres' = [mres EXCEPT ![i] = r]
    /\ firstErr' = IF r # "nil" /\ firstErr = 0 THEN i ELSE firstErr
    /\ UNCHANGED <<rgpc, rgret, gdone, gwg, gerr, mkind, mclosed, mcres, mclogged>>
    /\ UNCHANGED notRG

\* A changed HasClose: the io.Closer case is left out.
HasCloseNoIo(kind) == kind = "Closer"

\* RunClose: the type switch calls Close for a Closer and for an io.Closer.
HasClose(kind) == kind \in {"Closer", "ioCloser"}

\* The deferred function of the member's goroutine: RunClose(ctx, r), and
\* log.Error when it returns an error.
MemberClose(i, e) ==
    /\ mpc[i] = "returned"
    /\ mpc' = [mpc EXCEPT ![i] = "closed"]
    /\ IF HasClose(mkind[i])
         THEN /\ mclosed' = [mclosed EXCEPT ![i] = @ + 1]
              /\ mcres' = [mcres EXCEPT ![i] = e]
              /\ mclogged' = [mclogged EXCEPT ![i] = e # "nil"]
         ELSE /\ e = "nil"
              /\ UNCHANGED <<mclosed, mcres, mclogged>>
    /\ UNCHANGED <<rgpc, rgret, gdone, gwg, gerr, firstErr, mkind, mres>>
    /\ UNCHANGED notRG

\* A changed ErrOnce: the error is stored without errOnce.
ErrOnceLast(cur, i) == i

\* g.errOnce.Do(func() { g.err = err; ... }): only the first error is kept.
ErrOnce(cur, i) == IF cur = 0 THEN i ELSE cur

\* A changed FuncResult: the error of the Close becomes the result when the
\* Run returned nil.
FuncResultWithClose(run, close) ==
    IF run = "nil" /\ close = "err" THEN "err" ELSE run

\* What the function handed to g.Go returns: return r.Run(ctx); the deferred
\* function only logs what RunClose returns.
FuncResult(run, close) == run

\* The errgroup's goroutine after f returned: a non-nil error goes through
\* errOnce, which stores it and cancels the context; then wg.Done().
MemberReport(i) ==
    /\ mpc[i] = "closed"
    /\ mpc' = [mpc EXCEPT ![i] = "done"]
    /\ gwg' = gwg - 1
    /\ IF FuncResult(mres[i], mcres[i]) # "nil"
         THEN /\ gerr' = ErrOnce(gerr, i)
              /\ gdone' = (gdone \/ gerr = 0)
         ELSE UNCHANGED <<gerr, gdone>>
    /\ UNCHANGED <<rgpc, rgret, firstErr, mkind, mres, mclosed, mcres, mclogged>>
    /\ UNCHANGED notRG

\* A changed WgWait: the wait ends as soon as an error is stored.
WgWaitOnError(n) == n = 0 \/ gerr # 0

\* g.wg.Wait() inside g.Wait(): blocks until the counter is zero.
WgWait(n) == n = 0

\* g.Wait() returns when the counter is zero: it cancels the context and
\* returns g.err, which the group's Run returns.
RGWaitReturn ==
    /\ rgpc = "waiting"
    /\ WgWait(gwg)
    /\ rgpc' = "returned"
    /\ rgret' = gerr
    /\ gdone' = TRUE
    /\ UNCHANGED <<gwg, gerr, firstErr, mkind, mpc, mres, mclosed, mcres, mclogged>>
    /\ UNCHANGED notRG

NextRG ==
    \/ \E kinds \in [Members -> CloseKinds] : RGRun(kinds)
    \/ \E i \in Members : RGGo(i)
    \/ RGWait
    \/ RGParentCancel
    \/ \E i \in Members, r \in MemberResults : MemberReturn(i, r)
    \/ \E i \in Members, e \in {"nil", "err"} : MemberClose(i, e)
    \/ \E i \in Members : MemberReport(i)
    \/ RGWaitReturn

SpecRG == Init /\ [][NextRG]_vars

(***************************************************************************)
(* MutexWithContext                                                        *)
(***************************************************************************)
\* A changed CanAcquire: the test of the free tokens is left out.
CanAcquireAlways(cur, q) == q = <<>>

\* semaphore.Weighted.Acquire: s.size-s.cur >= n && s.waiters.Len() == 0
CanAcquire(cur, q) == SemSize - cur >= 1 /\ q = <<>>

\* A changed NotifyWaiters: no waiter is given a token.
NotifyWaitersNobody(cur, q, rdy) == [cur |-> cur, q |-> q, rdy |-> rdy]

\* semaphore.Weighted.notifyWaiters: the waiters at the front of the queue
\* get a token each, and their ready channel is closed, as long as tokens are
\* left.
RECURSIVE NotifyWaiters(_, _, _)
NotifyWaiters(cur, q, rdy) ==
    IF q = <<>> \/ SemSize - cur < 1
    THEN [cur |-> cur, q |-> q, rdy |-> rdy]
    ELSE NotifyWaiters(cur + 1, Tail(q), [rdy EXCEPT ![Head(q)] = TRUE])

\* A changed ReleasePanics: the test of cur is left out.
ReleasePanicsNever(cur) == FALSE

\* semaphore.Weighted.Release: if s.cur < 0 { panic(...) }, tested after
\* s.cur -= n.
ReleasePanics(cur) == cur < 0

\* semaphore.Weighted.Release(1): s.cur -= n; then the panic, or
\* notifyWaiters.
Release(cur, q, rdy) ==
    IF ReleasePanics(cur - 1)
    THEN [cur |-> cur - 1, q |-> q, rdy |-> rdy, panic |-> TRUE]
    ELSE [cur |-> NotifyWaiters(cur - 1, q, rdy).cur,
          q |-> NotifyWaiters(cur - 1, q, rdy).q,
          rdy |-> NotifyWaiters(cur - 1, q, rdy).rdy,
          panic |-> FALSE]

\* q without the goroutine g.
RemoveWaiter(q, g) == SelectSeq(q, LAMBDA x : x # g)

\* A changed PutBack: the tokens taken for a cancelled waiter are kept.
PutBackNothing(cur) == cur

\* semaphore.Weighted.Acquire, cancelled after it was given the token:
\* s.cur -= n.
PutBack(cur) == cur - 1

\* MutexWithContext.Lock(ctx) is called, with ctx live or already done
\* (d): Acquire, under its mutex, returns ctx.Err() for a done ctx, or takes
\* the free token, or queues a waiter. A release of the library without the
\* test of ctx goes on to the token with a done ctx too.
LockCall(g, d) ==
    /\ lpc[g] \in {"idle", "failed"}
    /\ lctxdone' = [lctxdone EXCEPT ![g] = d]
    /\ \/ /\ d
          /\ lpc' = [lpc EXCEPT ![g] = "failed"]
          /\ UNCHANGED <<semCur, waiters>>
       \/ /\ CanAcquire(semCur, waiters)
          /\ semCur' = semCur + 1
          /\ lpc' = [lpc EXCEPT ![g] = "holding"]
          /\ UNCHANGED waiters
       \/ /\ ~CanAcquire(semCur, waiters)
          /\ waiters' = Append(waiters, g)
          /\ lpc' = [lpc EXCEPT ![g] = "waiting"]
          /\ UNCHANGED semCur
    /\ UNCHANGED <<ready, uout, extra, stolen>>
    /\ UNCHANGED notMx

\* The ctx of a Lock call in progress is cancelled or reaches its deadline.
MxCancel(g) ==
    /\ lpc[g] = "waiting"
    /\ ~lctxdone[g]
    /\ lctxdone' = [lctxdone EXCEPT ![g] = TRUE]
    /\ UNCHANGED <<semCur, waiters, ready, lpc, uout, extra, stolen>>
    /\ UNCHANGED notMx

\* Acquire's select takes case <-ready: Lock returns nil; with ctx done the
\* library releases the token again and returns ctx.Err() (a release
\* without that test returns nil).
LockWake(g) ==
    /\ lpc[g] = "waiting"
    /\ ready[g]
    /\ \/ /\ lpc' = [lpc EXCEPT ![g] = "holding"]
          /\ ready' = [ready EXCEPT ![g] = FALSE]
          /\ UNCHANGED <<semCur, waiters, uout>>
       \/ /\ lctxdone[g]
          /\ LET r == Release(semCur, waiters, [ready EXCEPT ![g] = FALSE])
             IN /\ semCur' = r.cur
                /\ waiters' = r.q
                /\ ready' = r.rdy
                /\ uout' = IF r.panic THEN "panic" ELSE uout
          /\ lpc' = [lpc EXCEPT ![g] = "failed"]
    /\ UNCHANGED <<lctxdone, extra, stolen>>
    /\ UNCHANGED notMx

\* Acquire's select takes case <-done, then, under the mutex: a waiter that
\* was given the token meanwhile puts it back and notifies (a release
\* without that returns nil, holding it); a waiter still queued is removed,
\* and the next ones are notified when it was at the front and tokens are
\* left. Lock returns ctx.Err().
LockCancel(g) ==
    /\ lpc[g] = "waiting"
    /\ lctxdone[g]
    /\ IF ready[g]
       THEN \/ /\ LET r == NotifyWaiters(PutBack(semCur), waiters,
                                          [ready EXCEPT ![g] = FALSE])
                  IN /\ semCur' = r.cur
                     /\ waiters' = r.q
                     /\ ready' = r.rdy
               /\ lpc' = [lpc EXCEPT ![g] = "failed"]
            \/ /\ lpc' = [lpc EXCEPT ![g] = "holding"]
               /\ ready' = [ready EXCEPT ![g] = FALSE]
               /\ UNCHANGED <<semCur, waiters>>
       ELSE /\ LET q == RemoveWaiter(waiters, g)
                   r == IF Head(waiters) = g /\ SemSize > semCur
                        THEN NotifyWaiters(semCur, q, ready)
                        ELSE [cur |-> semCur, q |-> q, rdy |-> ready]
               IN /\ semCur' = r.cur
                  /\ waiters' = r.q
                  /\ ready' = r.rdy
            /\ lpc' = [lpc EXCEPT ![g] = "failed"]
    /\ UNCHANGED <<lctxdone, uout, extra, stolen>>
    /\ UNCHANGED notMx

\* MutexWithContext.Unlock by the goroutine whose Lock returned nil.
Unlock(g) ==
    /\ lpc[g] = "holding"
    /\ LET r == Release(semCur, waiters, ready)
       IN /\ semCur' = r.cur
          /\ waiters' = r.q
          /\ ready' = r.rdy
          /\ uout' = IF r.panic THEN "panic" ELSE "ok"
    /\ lpc' = [lpc EXCEPT ![g] = "idle"]
    /\ UNCHANGED <<lctxdone, extra, stolen>>
    /\ UNCHANGED notMx

\* MutexWithContext.Unlock by a goroutine that holds no Lock
\* (TestMutexWithContext_ExtraUnlock); a panic is recovered.
ExtraUnlock(g) ==
    /\ lpc[g] \in {"idle", "failed"}
    /\ extra < MaxExtra
    /\ extra' = extra + 1
    /\ LET r == Release(semCur, waiters, ready)
       IN /\ semCur' = r.cur
          /\ waiters' = r.q
          /\ ready' = r.rdy
          /\ uout' = IF r.panic THEN "panic" ELSE "ok"
          /\ stolen' = (stolen \/ ~r.panic)
    /\ UNCHANGED <<lpc, lctxdone>>
    /\ UNCHANGED notMx

\* Every Unlock is paired with the goroutine's own successful Lock.
NextMx ==
    \/ \E g \in Goroutines, d \in BOOLEAN : LockCall(g, d)
    \/ \E g \in Goroutines : MxCancel(g)
    \/ \E g \in Goroutines : LockWake(g)
    \/ \E g \in Goroutines : LockCancel(g)
    \/ \E g \in Goroutines : Unlock(g)

\* A goroutine blocked in Acquire's select runs once a channel of the select
\* is ready.
FairMx ==
    /\ \A g \in Goroutines : WF_vars(LockWake(g))
    /\ \A g \in Goroutines : WF_vars(LockCancel(g))

SpecMx == Init /\ [][NextMx]_vars /\ FairMx

\* A goroutine whose Lock returned nil calls Unlock in the end.
FairUnlock == \A g \in Goroutines : WF_vars(Unlock(g))

SpecMxLive == Init /\ [][NextMx]_vars /\ FairMx /\ FairUnlock

\* As NextMx, with Unlock calls that have no matching Lock.
NextMxExtra ==
    \/ \E g \in Goroutines, d \in BOOLEAN : LockCall(g, d)
    \/ \E g \in Goroutines : MxCancel(g)
    \/ \E g \in Goroutines : LockWake(g)
    \/ \E g \in Goroutines : LockCancel(g)
    \/ \E g \in Goroutines : Unlock(g)
    \/ \E g \in Goroutines : ExtraUnlock(g)

SpecMxExtra == Init /\ [][NextMxExtra]_vars /\ FairMx

(***************************************************************************)
(* TaskGroup: the properties                                               *)
(***************************************************************************)
\* Invocation t has had the result of its last r.Run call handled by the if
\* statement.
Handled(t) == terr[t] # "none" /\ tpc[t] # "returned"

\* C1: in every reachable state the WaitGroup counter is not negative and
\* equals the number of Run/Loop invocations whose call was made and whose
\* goroutine has not ended: one increment per invocation, made by the call,
\* and one decrement, made when the goroutine ends, whatever the number of
\* iterations of a loop.
C1_BarrierCount == wgCount >= 0 /\ wgCount = Cardinality(InFlight)

\* C1 witness: a loop is in its third iteration, alone in flight, after
\* another invocation has ended.
C1_Witness ==
    \E t, u \in Tasks :
        /\ tkind[t] = "loop" /\ tcalls[t] >= 2 /\ tpc[t] = "checked"
        /\ tpc[u] = "done"
        /\ wgCount = 1

\* C2: a Wait that has been released or has returned finds every invocation
\* that was in flight when it was called ended, and a Wait stays blocked only
\* while the counter is positive.
C2_WaitBarrier ==
    /\ wpc \in {"woken", "returned"} => \A t \in wsnap : tpc[t] = "done"
    /\ wpc = "blocked" => wgCount > 0

\* C2 witness: Wait was called with two invocations in flight and has
\* returned.
C2_Witness == wpc = "returned" /\ Cardinality(wsnap) >= 2

\* C3 as amended: (a) a loop whose runner returned an error that is not
\* context.Canceled is ending or has ended; (b) once ctx has ended no loop
\* passes its loop condition again, so at most the one invocation whose
\* check came before the end of ctx still starts; a loop whose runner returns
\* nil k times and then an error has, when it ends with ctx live, called the
\* runner k+1 times; the loop's goroutine ends and a blocked Wait returns.
C3_LoopStops ==
    /\ [](\A t \in Tasks :
            (tkind[t] = "loop" /\ Handled(t) /\ terr[t] \in {"DeadlineExceeded", "Other"})
                => tpc[t] \in {"exiting", "done"})
    /\ [][\A t \in Tasks :
            (tkind[t] = "loop" /\ ctxErr[tctx[t]] # "nil" /\ tpc'[t] = "checked")
                => tpc[t] = "checked"]_vars
    /\ [][\A t \in Tasks : tcalls'[t] # tcalls[t] => tpc[t] = "checked"]_vars
    /\ [](\A t \in Tasks :
            (tkind[t] = "loop" /\ tpc[t] \in {"exiting", "done"} /\ ctxErr[tctx[t]] = "nil")
                => tcalls[t] = tscript[t] + 1)
    /\ \A t \in Tasks : (tkind[t] = "loop") ~> (tpc[t] = "done")
    /\ (wpc = "blocked") ~> (wpc = "returned")

\* C3 witness: the runner returned nil once and then an error with ctx live;
\* it was called twice, the loop has ended and Wait has returned.
C3_Witness ==
    /\ tkind[1] = "loop" /\ tscript[1] = 1 /\ tcalls[1] = 2 /\ tpc[1] = "done"
    /\ ctxErr[tctx[1]] = "nil"
    /\ wpc = "returned" /\ wsnap = {1}

\* C3 as stated: a loop starts no runner invocation once ctx has ended.
C3_Original ==
    [][\A t \in Tasks :
        (tkind[t] = "loop" /\ ctxErr[tctx[t]] # "nil") => tcalls'[t] = tcalls[t]]_vars

\* C4 as amended: the result of a runner invocation is reported to log.Error
\* if and only if it is not nil and is not context.Canceled; in particular a
\* context.DeadlineExceeded is reported.
C4_LogPolicy ==
    \A t \in Tasks :
        /\ Handled(t) => (tlogged[t] <=> terr[t] \in {"DeadlineExceeded", "Other"})
        /\ ~Handled(t) => ~tlogged[t]

\* C4 witness: one invocation had context.Canceled from its cancelled ctx and
\* did not report it; another one had an error and reported it.
C4_Witness ==
    \E t, u \in Tasks :
        /\ Handled(t) /\ terr[t] = "Canceled" /\ tfromctx[t] /\ ~tlogged[t]
        /\ Handled(u) /\ terr[u] = "Other" /\ tlogged[u]

\* C4 as stated: the result is reported if and only if it is not nil and is
\* not a cancellation error, where an error produced because the context
\* ended counts as a cancellation error.
C4_Original ==
    \A t \in Tasks :
        Handled(t) =>
            (tlogged[t] <=> (terr[t] # "nil" /\ terr[t] # "Canceled" /\ ~tfromctx[t]))

\* Some call of the scripted runner of invocation t has returned an error
\* (in a state where no call is running).
FailedCalls(t) ==
    \/ tscript[t] = Canceling /\ tcalls[t] > 0
    \/ tscript[t] \in 0..(MaxCalls - 1) /\ tcalls[t] > tscript[t]

\* C24: after an invocation of the runner of a Loop has returned a non-nil
\* error, of whatever kind, the loop starts no further invocation.
C24_Original ==
    [][\A t \in Tasks :
        (tkind[t] = "loop" /\ tpc[t] # "running" /\ FailedCalls(t)) =>
            tcalls'[t] = tcalls[t]]_vars

\* C31: the goroutine of a Run invocation calls the runner whatever the state
\* of ctx, once, and ends after the call whatever it returned; the goroutine
\* of a Loop invocation that finds ctx ended at its first check calls the
\* runner not at all and ends.
C31_InvocationCount ==
    /\ [](\A t \in Tasks : tkind[t] = "run" =>
            /\ tcalls[t] = (IF tpc[t] = "checked" THEN 0 ELSE 1)
            /\ tpc[t] = "checked" => ENABLED TaskInvoke(t))
    /\ [][\A t \in Tasks :
            (tkind[t] = "run" /\ tpc[t] = "returned" /\ tpc'[t] # tpc[t])
                => (tpc'[t] = "exiting" /\ tcalls'[t] = 1)]_vars
    /\ [][\A t \in Tasks :
            (tkind[t] = "loop" /\ tpc[t] = "head" /\ ctxErr[tctx[t]] # "nil"
                /\ tpc'[t] # tpc[t])
                => (tpc'[t] = "exiting" /\ tcalls'[t] = tcalls[t])]_vars
    /\ [][\A t \in Tasks :
            (tpc[t] = "exiting" /\ tpc'[t] # tpc[t])
                => (tpc'[t] = "done" /\ tcalls'[t] = tcalls[t])]_vars

\* C31 witness: ctx has ended; the Loop invocation ended without a call of its
\* runner, and the Run invocation ended after one call of its runner, which
\* returned an error.
C31_Witness ==
    /\ ctxErr["ctx"] = "Canceled"
    /\ tkind[1] = "loop" /\ tpc[1] = "done" /\ tcalls[1] = 0
    /\ tkind[2] = "run" /\ tpc[2] = "done" /\ tcalls[2] = 1
    /\ terr[2] = "Other"

(***************************************************************************)
(* RunGroup: the properties                                                *)
(***************************************************************************)
\* C5 as amended: every member is started before the group waits; the first
\* member error that reaches the errgroup (after that member's deferred Close)
\* is stored, cancels the derived context and is never replaced; the group's
\* Run returns the stored error, which is the error of a member whose Run
\* returned an error; it returns nil if and only if every member's Run
\* returned nil.
C5_FirstError ==
    /\ [](rgpc \in {"waiting", "returned"} => \A i \in Members : mpc[i] # "unstarted")
    /\ [](gerr # 0 => (gdone /\ mpc[gerr] = "done" /\ mres[gerr] \in {"err", "ctxerr"}))
    /\ [][gerr # 0 => gerr' = gerr]_vars
    /\ [][\A i \in Members :
            (gerr = 0 /\ mpc[i] = "closed" /\ mpc'[i] = "done" /\ mres[i] # "nil")
                => gerr' = i]_vars
    /\ [](rgpc = "returned" => rgret = gerr)
    /\ [](rgpc = "returned" => (rgret = 0 <=> \A i \in Members : mres[i] = "nil"))

\* C5 witness: member 1 failed first and the group returned its error, not
\* the cancellation error that member 2 returned afterwards.
C5_Witness ==
    /\ rgpc = "returned" /\ rgret = 1 /\ firstErr = 1
    /\ mres[1] = "err" /\ mres[2] = "ctxerr"

\* C5 as stated: the group's Run returns the error of the member whose Run was
\* the first to return an error (nil when there is none).
C5_Original == rgpc = "returned" => rgret = firstErr

\* C6: a member's Close is called at most once, only for a Closer or an
\* io.Closer and only after the member's own Run has returned; when the
\* group's Run has returned, every such member has been closed exactly once,
\* whatever its Run returned.
C6_CloseOnce ==
    \A i \in Members :
        /\ mclosed[i] <= 1
        /\ mclosed[i] = 1 =>
              (mkind[i] \in {"Closer", "ioCloser"} /\ mres[i] # "none"
                 /\ mpc[i] \in {"closed", "done"})
        /\ mpc[i] \in {"closed", "done"} =>
              mclosed[i] = (IF mkind[i] \in {"Closer", "ioCloser"} THEN 1 ELSE 0)
        /\ rgpc = "returned" => mpc[i] = "done"

\* C6 witness: member 1 failed, member 2 (an io.Closer) was cancelled by that
\* failure and returned the cancellation error, and both were closed once
\* when the group's Run returned.
C6_Witness ==
    /\ rgpc = "returned" /\ gerr = 1
    /\ mkind[1] = "Closer" /\ mclosed[1] = 1 /\ mres[1] = "err"
    /\ mkind[2] = "ioCloser" /\ mclosed[2] = 1 /\ mres[2] = "ctxerr"

\* C28: the error of a member's Close is reported to the log and to nothing
\* else: when every member's Run returned nil the group's Run returns nil,
\* whatever the Close calls returned, and when a member's Run failed the
\* group's Run returns the error of a member's Run.
C28_CloseOnlyLogged ==
    /\ \A i \in Members : mclogged[i] <=> mcres[i] = "err"
    /\ rgpc = "returned" =>
          IF \A i \in Members : mres[i] = "nil"
          THEN rgret = 0
          ELSE rgret # 0 /\ mres[rgret] \in {"err", "ctxerr"}

\* C28 witness: every member's Run returned nil, the Close of a member
\* returned an error, which was logged, and the group's Run returned nil.
C28_Witness ==
    /\ rgpc = "returned" /\ rgret = 0
    /\ \A i \in Members : mres[i] = "nil"
    /\ \E i \in Members : mcres[i] = "err" /\ mclogged[i]

\* C30: a member whose Run returned nil leaves the derived context as it is;
\* a member leaves its Run only by returning, whether the context is done or
\* not; and the group's Run has not returned, and cannot return, while a
\* member is still in its Run, a sibling's failure notwithstanding.
C30_NoForcedEnd ==
    /\ [][\A i \in Members :
            (mpc[i] = "closed" /\ mpc'[i] = "done" /\ mres[i] = "nil")
                => gdone' = gdone]_vars
    /\ [][\A i \in Members :
            (mpc[i] = "running" /\ mpc'[i] # "running")
                => (mpc'[i] = "returned" /\ mres'[i] \in MemberResults)]_vars
    /\ []((\E i \in Members : mpc[i] = "running") =>
            (rgpc # "returned" /\ ~ENABLED RGWaitReturn))
    /\ [](rgpc = "returned" => \A i \in Members : mres[i] # "none")

\* C30 witness: member 1 has failed and its error has cancelled the derived
\* context, member 2 is still in its Run, and the group's Run is waiting.
C30_Witness ==
    /\ rgpc = "waiting" /\ gerr = 1 /\ gdone
    /\ mpc[1] = "done" /\ mpc[2] = "running"

(***************************************************************************)
(* MutexWithContext: the properties                                        *)
(***************************************************************************)
\* The goroutines between a Lock that returned nil and their Unlock.
Holders == {g \in Goroutines : lpc[g] = "holding"}

\* The goroutines still in Lock whose waiter has been given the token.
Granted == {g \in Goroutines : lpc[g] = "waiting" /\ ready[g]}

\* The goroutines in the queue of waiters.
Queued == {waiters[k] : k \in 1..Len(waiters)}

\* C7: with every Unlock paired with the goroutine's own successful Lock, at
\* most one goroutine is between a Lock that returned nil and its Unlock.
C7_MutualExclusion == Cardinality(Holders) <= 1

\* C7 witness: after an Unlock, one goroutine holds the lock while another
\* is blocked in Lock.
C7_Witness ==
    \E g, h \in Goroutines :
        /\ lpc[g] = "holding"
        /\ lpc[h] = "waiting" /\ ~ready[h]
        /\ uout = "ok"

\* In this step the Lock call of g returns.
LockReturns(g) ==
    \/ lpc[g] = "waiting" /\ lpc'[g] # "waiting"
    \/ lpc[g] \in {"idle", "failed"} /\ lpc'[g] = "holding"
    \/ lpc[g] = "idle" /\ lpc'[g] = "failed"

\* C8: every token taken belongs to a goroutine whose Lock returned nil or
\* is about to return; a Lock that returned an error had its ctx done and
\* left no waiter and no token behind; a Lock that returns while another
\* goroutine holds the lock returns the error, with its ctx done, and leaves
\* the holder and the count of tokens as they were; no paired Unlock panics;
\* and a Lock blocked with its ctx done returns.
C8_LockResult ==
    /\ [](semCur = Cardinality(Holders \cup Granted))
    /\ [](\A g \in Goroutines :
            lpc[g] \in {"failed", "holding", "idle"} => (~ready[g] /\ g \notin Queued))
    /\ [](\A g \in Goroutines : lpc[g] = "failed" => lctxdone[g])
    /\ [][\A g \in Goroutines :
            (LockReturns(g) /\ Holders \ {g} # {})
                => /\ lpc'[g] = "failed"
                   /\ lctxdone'[g]
                   /\ \A h \in Holders : lpc'[h] = "holding"
                   /\ semCur' = semCur]_vars
    /\ [](uout # "panic")
    /\ \A g \in Goroutines :
          (lpc[g] = "waiting" /\ lctxdone[g]) ~> (lpc[g] # "waiting")

\* C8 witness: the Lock of one goroutine returned the error of its done ctx
\* while another goroutine holds the lock, and the token count is one.
C8_Witness ==
    \E g, h \in Goroutines :
        /\ lpc[g] = "failed" /\ lctxdone[g]
        /\ lpc[h] = "holding"
        /\ semCur = 1 /\ waiters = <<>>

\* C32: no token and no wake-up is lost. While a token is free nobody is
\* queued; when no goroutine holds the lock or is inside Lock, the token is
\* free and a Lock with a live ctx takes it at once; the Unlock of the holder
\* hands the token to the waiter at the front of the queue; and, holders
\* unlocking in the end, a Lock call that waits returns nil unless its ctx
\* ends.
C32_NoLostWakeup ==
    /\ [](semCur < SemSize => waiters = <<>>)
    /\ []((\A g \in Goroutines : lpc[g] \in {"idle", "failed"}) =>
            /\ semCur = 0
            /\ \A g \in Goroutines :
                  ENABLED (LockCall(g, FALSE) /\ lpc'[g] = "holding"))
    /\ [][\A h \in Goroutines :
            (lpc[h] = "holding" /\ lpc'[h] = "idle" /\ waiters # <<>>)
                => (ready'[Head(waiters)] /\ semCur' = 1)]_vars
    /\ \A g \in Goroutines :
          (lpc[g] = "waiting" /\ ~lctxdone[g]) ~>
              (lpc[g] = "holding" \/ lctxdone[g])

\* C32 witness: after an attempt that failed by cancellation, and an Unlock,
\* a waiter whose ctx is live has been given the token, and a third goroutine
\* is queued behind it.
C32_Witness ==
    \E g, h, k \in Goroutines :
        /\ lpc[g] = "waiting" /\ ready[g] /\ ~lctxdone[g]
        /\ lpc[h] = "failed" /\ lctxdone[h]
        /\ lpc[k] = "waiting" /\ ~ready[k]
        /\ uout = "ok"

\* C9: an Unlock without a matching Lock, called while no goroutine holds the
\* lock or has been given it, panics.
C9_ExtraUnlockPanics ==
    [][(extra' # extra /\ Holders \cup Granted = {}) => uout' = "panic"]_vars

\* C9 witness: the one Unlock made, on a mutex nobody holds, has panicked.
C9_Witness ==
    /\ extra = 1 /\ uout = "panic"
    /\ \A g \in Goroutines : lpc[g] = "idle"

\* C10: as long as every Unlock without a matching Lock has failed (none has
\* returned normally), the mutex admits at most one holder at a time.
C10_Original == ~stolen => Cardinality(Holders) <= 1

(***************************************************************************)
(* Shutdown                                                                *)
(***************************************************************************)
\* errors.New(fmt.Sprintf("signal %v", sig))
SignalError(sig) == "signal " \o sig
SignalErrors == {SignalError(sig) : sig \in Signals}

\* Which Run call is made next: the calls are numbered in call order.
NextRun(r) ==
    /\ sdpc[r] = "idle"
    /\ \A q \in Runs : q < r => sdpc[q] # "idle"

\* signal.Notify(c, SIGINT, SIGTERM, SIGHUP): c joins the registered channels.
SignalNotify(h, r) == h \cup {r}

\* signal.Reset(SIGINT, SIGTERM, SIGHUP): every registration for the three
\* signals is undone, those of other channels included.
SignalResetNothing(h) == h
SignalReset(h) == {}

\* A changed ReturnKeeps: the registration of c is undone (signal.Stop(c)).
ReturnStops(h, r) == h \ {r}

\* return ctx.Err() and return nil: the registered channels afterwards; Run
\* has no signal.Stop(c) and no signal.Reset on these paths.
ReturnKeeps(h, r) == h

\* case <-s.done: whether the case is ready.
CaseDoneAlways == TRUE
CaseDone == sdDone

\* A changed ClosePanics: closing a closed channel does nothing.
ClosePanicsNever(d) == FALSE

\* close(s.done) panics when the channel is closed already.
ClosePanics(d) == d

\* close(s.done): the channel is closed afterwards.
CloseChanNot(d) == d
CloseChan(d) == TRUE

\* Run, up to the select: c is made and registered; the ctx of the call may
\* be done already.
SdRun(r, c) ==
    /\ ~killed
    /\ NextRun(r)
    /\ handlers' = SignalNotify(handlers, r)
    /\ sdctx' = [sdctx EXCEPT ![r] = c]
    /\ sdlate' = [sdlate EXCEPT ![r] = sdCalled]
    /\ sdpc' = [sdpc EXCEPT ![r] = "select"]
    /\ UNCHANGED <<sdDone, sdCalled, sdPanic, killed, signals, sdchan, sdgot,
                   sdsig, sdret>>
    /\ UNCHANGED notSd

\* The channel c of a Run call is registered and the call can still read it
\* (after the select nothing reads c: what it holds is not kept).
Listening(r) == r \in handlers /\ sdpc[r] = "select"

\* A termination signal is sent to the process. With no channel registered
\* the default action ends the process; otherwise the signal is sent to
\* every registered channel without blocking (a full channel drops it).
SdSignal(sig) ==
    /\ ~killed
    /\ signals < MaxSignals
    /\ signals' = signals + 1
    /\ IF handlers = {}
       THEN /\ killed' = TRUE
            /\ UNCHANGED <<sdchan, sdgot>>
       ELSE /\ sdchan' = [r \in Runs |->
                            IF Listening(r) /\ sdchan[r] = "none"
                            THEN sig ELSE sdchan[r]]
            /\ sdgot' = [r \in Runs |->
                            IF Listening(r) /\ sdchan[r] = "none"
                            THEN sdgot[r] \cup {sig} ELSE sdgot[r]]
            /\ UNCHANGED killed
    /\ UNCHANGED <<sdDone, sdCalled, sdPanic, handlers, sdpc, sdctx, sdsig,
                   sdret, sdlate>>
    /\ UNCHANGED notSd

\* The ctx of a blocked Run call is cancelled or reaches its deadline.
SdCtxEnd(r, e) ==
    /\ ~killed
    /\ sdpc[r] = "select"
    /\ sdctx[r] = "nil"
    /\ e # "nil"
    /\ sdctx' = [sdctx EXCEPT ![r] = e]
    /\ UNCHANGED <<sdDone, sdCalled, sdPanic, handlers, killed, signals, sdpc,
                   sdchan, sdgot, sdsig, sdret, sdlate>>
    /\ UNCHANGED notSd

\* Close: close(s.done), which panics when the channel is closed already.
SdClose ==
    /\ ~killed
    /\ ~sdPanic
    /\ sdCalled' = TRUE
    /\ IF sdDone
       THEN sdPanic' = ClosePanics(sdDone) /\ UNCHANGED sdDone
       ELSE sdDone' = CloseChan(sdDone) /\ UNCHANGED sdPanic
    /\ UNCHANGED <<handlers, killed, signals, sdpc, sdctx, sdchan, sdgot,
                   sdsig, sdret, sdlate>>
    /\ UNCHANGED notSd

\* case sig := <-c, followed by signal.Reset.
SdSelectSignal(r) ==
    /\ ~killed
    /\ sdpc[r] = "select"
    /\ sdchan[r] # "none"
    /\ sdsig' = [sdsig EXCEPT ![r] = sdchan[r]]
    /\ sdchan' = [sdchan EXCEPT ![r] = "none"]
    /\ handlers' = SignalReset(handlers)
    /\ sdpc' = [sdpc EXCEPT ![r] = "reset"]
    /\ UNCHANGED <<sdDone, sdCalled, sdPanic, killed, signals, sdctx, sdgot,
                   sdret, sdlate>>
    /\ UNCHANGED notSd

\* return errors.New(fmt.Sprintf("signal %v", sig))
SdReturnSignal(r) ==
    /\ ~killed
    /\ sdpc[r] = "reset"
    /\ sdret' = [sdret EXCEPT ![r] = SignalError(sdsig[r])]
    /\ sdsig' = [sdsig EXCEPT ![r] = "none"]
    /\ sdpc' = [sdpc EXCEPT ![r] = "returned"]
    /\ UNCHANGED <<sdDone, sdCalled, sdPanic, handlers, killed, signals, sdctx,
                   sdchan, sdgot, sdlate>>
    /\ UNCHANGED notSd

\* case <-ctx.Done(): return ctx.Err()
SdSelectCtx(r) ==
    /\ ~killed
    /\ sdpc[r] = "select"
    /\ sdctx[r] # "nil"
    /\ sdret' = [sdret EXCEPT ![r] = sdctx[r]]
    /\ sdpc' = [sdpc EXCEPT ![r] = "returned"]
    /\ handlers' = ReturnKeeps(handlers, r)
    /\ UNCHANGED <<sdDone, sdCalled, sdPanic, killed, signals, sdctx, sdchan,
                   sdgot, sdsig, sdlate>>
    /\ UNCHANGED notSd

\* case <-s.done: return nil
SdSelectDone(r) ==
    /\ ~killed
    /\ sdpc[r] = "select"
    /\ CaseDone
    /\ sdret' = [sdret EXCEPT ![r] = "nil"]
    /\ sdpc' = [sdpc EXCEPT ![r] = "returned"]
    /\ handlers' = ReturnKeeps(handlers, r)
    /\ UNCHANGED <<sdDone, sdCalled, sdPanic, killed, signals, sdctx, sdchan,
                   sdgot, sdsig, sdlate>>
    /\ UNCHANGED notSd

\* One step of a Run call that is past signal.Notify.
SdStep(r) ==
    \/ SdSelectSignal(r)
    \/ SdReturnSignal(r)
    \/ SdSelectCtx(r)
    \/ SdSelectDone(r)

NextSd ==
    \/ \E r \in Runs, c \in CtxErrs : SdRun(r, c)
    \/ \E sig \in Signals : SdSignal(sig)
    \/ \E r \in Runs, e \in CtxErrs : SdCtxEnd(r, e)
    \/ SdClose
    \/ \E r \in Runs : SdStep(r)

\* A select with a ready case proceeds, and so does the code after it.
FairSd == \A r \in Runs : WF_vars(SdStep(r))

SpecSd == Init /\ [][NextSd]_vars /\ FairSd

(***************************************************************************)
(* Shutdown: the properties                                                *)
(***************************************************************************)
\* C11: a Run call that has returned was ended by one of the three events,
\* and its result is that of the event: the error naming a signal that was
\* delivered to its channel, the error of its done ctx, or nil after Close.
C11_RunResult ==
    \A r \in Runs :
        sdpc[r] = "returned" =>
            \/ sdret[r] = "nil" /\ sdDone
            \/ sdret[r] \in {"Canceled", "DeadlineExceeded"}
                 /\ sdret[r] = sdctx[r]
            \/ \E sig \in sdgot[r] : sdret[r] = SignalError(sig)

\* C11 witness: a Run call returned "signal hangup" after SIGHUP, the one
\* signal sent, although its ctx was done and the Shutdown closed by then.
C11_Witness ==
    \E r \in Runs :
        /\ sdpc[r] = "returned" /\ sdret[r] = "signal hangup"
        /\ sdgot[r] = {"hangup"} /\ signals = 1
        /\ sdctx[r] = "Canceled" /\ sdDone

\* C12: the select case that takes the signal leaves no channel registered
\* before Run returns; a Run call that returned a signal error is no longer
\* registered, nothing is registered unless another Run call registered
\* since, and a signal that finds nothing registered ends the process.
C12_SignalReset ==
    /\ [][\A r \in Runs :
            (sdpc[r] = "select" /\ sdpc'[r] = "reset") => handlers' = {}]_vars
    /\ [](\A r \in Runs :
            (sdpc[r] = "returned" /\ sdret[r] \in SignalErrors) =>
                /\ r \notin handlers
                /\ (\A q \in Runs \ {r} : sdpc[q] = "idle") => handlers = {})
    /\ [][(signals' # signals /\ handlers = {}) => killed']_vars

\* C12 witness: the only Run call returned a signal error, nothing is
\* registered and a second signal has ended the process.
C12_Witness ==
    /\ sdpc[1] = "returned" /\ sdret[1] \in SignalErrors
    /\ \A q \in Runs \ {1} : sdpc[q] = "idle"
    /\ handlers = {} /\ signals = 2 /\ killed

\* C34: a Run call that returns through the ctx case or the done case leaves
\* the registered channels as they are; the registrations
\* change only when a Run call registers its channel or takes the signal
\* case; so the channel of a Run that returned ctx.Err() or nil stays
\* registered until some Run call takes the signal case, and a signal sent
\* meanwhile does not end the process.
C34_RegistrationKept ==
    /\ [][\A r \in Runs :
            (sdpc[r] = "select" /\ sdpc'[r] = "returned")
                => handlers' = handlers]_vars
    /\ [][handlers' # handlers =>
            \E r \in Runs :
                /\ sdpc[r] \in {"idle", "select"}
                /\ sdpc'[r] = (IF sdpc[r] = "idle" THEN "select" ELSE "reset")]_vars
    /\ [](\A r \in Runs :
            (sdpc[r] = "returned" /\ sdret[r] \notin SignalErrors
                /\ \A q \in Runs : sdpc[q] # "reset" /\ sdret[q] \notin SignalErrors)
                => r \in handlers)
    /\ [][(signals' # signals /\ handlers # {}) => ~killed']_vars

\* C34 witness: the Run call returned nil after Close, its channel is still
\* registered, and a signal sent to the process has not ended it.
C34_Witness ==
    /\ sdpc[1] = "returned" /\ sdret[1] = "nil" /\ sdDone
    /\ 1 \in handlers
    /\ signals > 0 /\ sdgot[1] = {} /\ ~killed

\* C13 (amended): a closed Shutdown stays closed; a Run call that starts
\* after Close does not stay blocked in its select; it returns nil when its
\* ctx is not done and no signal was delivered to it.
C13_RunAfterClose ==
    /\ [][sdDone => sdDone']_vars
    /\ \A r \in Runs :
         (sdpc[r] = "select" /\ sdlate[r]) ~> (sdpc[r] # "select" \/ killed)
    /\ [](\A r \in Runs :
            (sdpc[r] = "returned" /\ sdlate[r]
               /\ sdctx[r] = "nil" /\ sdgot[r] = {}) => sdret[r] = "nil")

\* C13 witness: a Run call that started after Close, with a live ctx and no
\* signal, has returned nil.
C13_Witness ==
    \E r \in Runs :
        /\ sdlate[r] /\ sdpc[r] = "returned" /\ sdret[r] = "nil"
        /\ sdctx[r] = "nil" /\ sdgot[r] = {}

\* C13 as stated: every Run call that starts after Close returns nil.
C13_Original ==
    \A r \in Runs : (sdpc[r] = "returned" /\ sdlate[r]) => sdret[r] = "nil"

(***************************************************************************)
(* cronjob.ServiceActivity                                                 *)
(*                                                                         *)
(* github.com/robfig/cron/v3 is a library: cron.New() without options has  *)
(* an empty job chain, so the dispatch loop starts every due entry in a    *)
(* goroutine of its own (startJob: jobWaiter.Add(1); go j.Run()) and does  *)
(* not wait for it; Stop ends the loop and returns a context that is done  *)
(* once jobWaiter is at zero. One Run call is made on the activity.        *)
(***************************************************************************)
\* cron.Stop: c.running afterwards.
CronStopNot(running) == running
CronStop(running) == FALSE

\* <-ctx2.Done(): jobWaiter is at zero, every started execution has ended.
DrainedAlways == TRUE
Drained == \A k \in Execs : epc[k] \in {"none", "done"}

\* case err = <-errCh
SelectErrDropped(v) == "nil"
SelectErr(v) == v

\* if err == nil { err = err2 }; return err
PrecedeClose(err, err2) == IF err2 # "nil" THEN err2 ELSE err
Precede(err, err2) == IF err = "nil" THEN err2 ELSE err

\* What lines 83-88 report to the log of err (chosen by the select) and err2
\* (returned by the job's Close): nothing, there is no log call in Run.
Logged(err, err2) == {}

\* Run, lines 44-60: the factory makes the job, the job is added to the cron
\* (which fails when the frequency does not parse) and the goroutine that
\* stops the cron at the end of ctx is started.
CrRun(c, kind, valid) ==
    /\ sapc = "idle"
    /\ jobsMade' = jobsMade + 1
    /\ jkind' = kind
    /\ crctx' = c
    /\ IF valid
       THEN /\ crEntries' = crEntries + 1
            /\ cwpc' = "waiting"
            /\ sapc' = "added"
            /\ saret' = saret
       ELSE /\ crEntries' = crEntries
            /\ cwpc' = cwpc
            /\ sapc' = "returned"
            /\ saret' = "AddJobErr"
    /\ UNCHANGED <<crRunning, jclosed, saDone, saPanic, sacause, sasel,
                   saclose, errCh, ticks, epc, eres, salog>>
    /\ UNCHANGED notCr

\* sa.cron.Start()
CrStart ==
    /\ sapc = "added"
    /\ crRunning' = TRUE
    /\ sapc' = "select"
    /\ UNCHANGED <<crEntries, jobsMade, jkind, jclosed, crctx, saDone, saPanic,
                   sacause, sasel, saclose, saret, cwpc, errCh, ticks, epc,
                   eres, salog>>
    /\ UNCHANGED notCr

\* go func() { <-ctx.Done(); sa.cron.Stop() }()
CrWatch ==
    /\ cwpc = "waiting"
    /\ crctx # "nil"
    /\ crRunning' = CronStop(crRunning)
    /\ cwpc' = "done"
    /\ UNCHANGED <<crEntries, jobsMade, jkind, jclosed, crctx, saDone, saPanic,
                   sapc, sacause, sasel, saclose, saret, errCh, ticks, epc,
                   eres, salog>>
    /\ UNCHANGED notCr

\* The ctx handed to Run is cancelled or reaches its deadline.
CrCtxEnd(e) ==
    /\ sapc \notin {"idle", "returned"}
    /\ crctx = "nil"
    /\ e # "nil"
    /\ crctx' = e
    /\ UNCHANGED <<crRunning, crEntries, jobsMade, jkind, jclosed, saDone,
                   saPanic, sapc, sacause, sasel, saclose, saret, cwpc, errCh,
                   ticks, epc, eres, salog>>
    /\ UNCHANGED notCr

\* ServiceActivity.Close: close(sa.done), which panics on a closed channel.
CrClose ==
    /\ ~saPanic
    /\ IF saDone
       THEN saPanic' = ClosePanics(saDone) /\ saDone' = saDone
       ELSE saDone' = TRUE /\ saPanic' = saPanic
    /\ UNCHANGED <<crRunning, crEntries, jobsMade, jkind, jclosed, crctx, sapc,
                   sacause, sasel, saclose, saret, cwpc, errCh, ticks, epc,
                   eres, salog>>
    /\ UNCHANGED notCr

\* case <-ctx.Done(): err = ctx.Err()
CrSelectCtx ==
    /\ sapc = "select"
    /\ crctx # "nil"
    /\ sacause' = "ctx"
    /\ sasel' = crctx
    /\ sapc' = "stopping"
    /\ UNCHANGED <<crRunning, crEntries, jobsMade, jkind, jclosed, crctx,
                   saDone, saPanic, saclose, saret, cwpc, errCh, ticks, epc,
                   eres, salog>>
    /\ UNCHANGED notCr

\* case <-sa.done: err = nil
CrSelectDone ==
    /\ sapc = "select"
    /\ saDone
    /\ sacause' = "done"
    /\ sasel' = "nil"
    /\ sapc' = "stopping"
    /\ UNCHANGED <<crRunning, crEntries, jobsMade, jkind, jclosed, crctx,
                   saDone, saPanic, saclose, saret, cwpc, errCh, ticks, epc,
                   eres, salog>>
    /\ UNCHANGED notCr

\* case err = <-errCh
CrSelectErr ==
    /\ sapc = "select"
    /\ errCh # "none"
    /\ sacause' = "err"
    /\ sasel' = SelectErr(errCh)
    /\ errCh' = "none"
    /\ sapc' = "stopping"
    /\ UNCHANGED <<crRunning, crEntries, jobsMade, jkind, jclosed, crctx,
                   saDone, saPanic, saclose, saret, cwpc, ticks, epc, eres,
                   salog>>
    /\ UNCHANGED notCr

\* ctx2 := sa.cron.Stop()
CrStop ==
    /\ sapc = "stopping"
    /\ crRunning' = CronStop(crRunning)
    /\ sapc' = "draining"
    /\ UNCHANGED <<crEntries, jobsMade, jkind, jclosed, crctx, saDone, saPanic,
                   sacause, sasel, saclose, saret, cwpc, errCh, ticks, epc,
                   eres, salog>>
    /\ UNCHANGED notCr

\* <-ctx2.Done(), then lines 83-88: RunClose on the job (e is what the job's
\* Close returns), the close error kept only when err is nil, return.
\* No statement of Run writes to the log.
CrCloseJob(e) ==
    /\ sapc = "draining"
    /\ Drained
    /\ HasClose(jkind) \/ e = "nil"
    /\ jclosed' = IF HasClose(jkind) THEN jclosed + 1 ELSE jclosed
    /\ saclose' = e
    /\ saret' = Precede(sasel, e)
    /\ sapc' = "returned"
    /\ salog' = salog \cup Logged(sasel, e)
    /\ UNCHANGED <<crRunning, crEntries, jobsMade, jkind, crctx, saDone,
                   saPanic, sacause, sasel, cwpc, errCh, ticks, epc, eres>>
    /\ UNCHANGED notCr

\* The dispatch loop finds the entry due and starts an execution of the job
\* in a new goroutine.
CrTick ==
    /\ crRunning
    /\ crEntries > 0
    /\ ticks < MaxTicks
    /\ ticks' = ticks + 1
    /\ epc' = [epc EXCEPT ![ticks + 1] = "running"]
    /\ UNCHANGED <<crRunning, crEntries, jobsMade, jkind, jclosed, crctx,
                   saDone, saPanic, sapc, sacause, sasel, saclose, saret, cwpc,
                   errCh, eres, salog>>
    /\ UNCHANGED notCr

\* job.Run(ctx) returns in execution k: with nil the execution ends, with an
\* error it goes on to errCh <- err.
JobReturn(k, res) ==
    /\ epc[k] = "running"
    /\ eres' = [eres EXCEPT ![k] = res]
    /\ epc' = [epc EXCEPT ![k] = IF res = "nil" THEN "done" ELSE "sending"]
    /\ UNCHANGED <<crRunning, crEntries, jobsMade, jkind, jclosed, crctx,
                   saDone, saPanic, sapc, sacause, sasel, saclose, saret, cwpc,
                   errCh, ticks, salog>>
    /\ UNCHANGED notCr

\* errCh <- err: blocks while the buffer is full.
JobSend(k) ==
    /\ epc[k] = "sending"
    /\ errCh = "none"
    /\ errCh' = eres[k]
    /\ epc' = [epc EXCEPT ![k] = "done"]
    /\ UNCHANGED <<crRunning, crEntries, jobsMade, jkind, jclosed, crctx,
                   saDone, saPanic, sapc, sacause, sasel, saclose, saret, cwpc,
                   ticks, eres, salog>>
    /\ UNCHANGED notCr

\* The select of Run, lines 65-75.
CrSelect == CrSelectCtx \/ CrSelectDone \/ CrSelectErr

NextCr ==
    \/ \E c \in CtxErrs, kind \in CloseKinds, valid \in BOOLEAN :
          CrRun(c, kind, valid)
    \/ CrStart
    \/ CrWatch
    \/ \E e \in CtxErrs : CrCtxEnd(e)
    \/ CrClose
    \/ CrSelect
    \/ CrStop
    \/ \E e \in {"nil", "CloseErr"} : CrCloseJob(e)
    \/ CrTick
    \/ \E k \in Execs, res \in {"nil", "JobErr"} : JobReturn(k, res)
    \/ \E k \in Execs : JobSend(k)

\* A select with a ready case proceeds.
FairCr == WF_vars(CrSelect)

SpecCr == Init /\ [][NextCr]_vars /\ FairCr

(***************************************************************************)
(* cronjob.ServiceActivity: the properties                                 *)
(***************************************************************************)
\* The executions that are inside job.Run.
InJob == {k \in Execs : epc[k] = "running"}

\* C14: no two executions of the Job's Run are in progress at the same time.
C14_Original == Cardinality(InJob) <= 1

\* C15: once the Job's Close has been invoked, or Run has returned from its
\* select, the cron is stopped and every execution that was started has
\* ended: Close never runs beside an execution, and Run does not return
\* before the execution in flight.
C15_CloseAfterDrain ==
    (jclosed > 0 \/ (sapc = "returned" /\ sacause # "none")) =>
        /\ ~crRunning
        /\ \A k \in Execs : epc[k] \in {"none", "done"}

\* C15 witness: Run was ended by Close, two executions were started and have
\* ended, and the Job was closed after them.
C15_Witness ==
    /\ sapc = "returned" /\ sacause = "done"
    /\ ticks = 2 /\ epc[1] = "done" /\ epc[2] = "done"
    /\ jclosed = 1

\* C16: a Run whose select took the ctx case returns the error of the done
\* ctx, a Run whose select took a Job error returns that error, and a Job
\* error waiting in errCh makes Run leave its select without Close or
\* cancellation.
C16_RunResult ==
    /\ []((sapc = "returned" /\ sacause = "ctx") =>
            (saret = crctx /\ saret \in {"Canceled", "DeadlineExceeded"}))
    /\ []((sapc = "returned" /\ sacause = "err") => saret = "JobErr")
    /\ (sapc = "select" /\ errCh # "none") ~> (sapc # "select")

\* C16 witness: with a live ctx and no Close, Run returned the Job error.
C16_Witness ==
    /\ sapc = "returned" /\ sacause = "err" /\ saret = "JobErr"
    /\ crctx = "nil" /\ ~saDone

\* C17: a Run ended by Close returns the Job error when an execution returned
\* one, and nil when none did and the Job's Close succeeded.
C17_Original ==
    (sapc = "returned" /\ sacause = "done") =>
        IF \E k \in Execs : eres[k] = "JobErr"
        THEN saret = "JobErr"
        ELSE saclose = "nil" => saret = "nil"

\* C18: the error of the Job's Close is the result of Run only when the
\* select chose no error; a cancellation error or Job error chosen by the
\* select is the result whatever the Job's Close returns.
C18_ClosePrecedence ==
    (sapc = "returned" /\ sacause # "none") =>
        /\ sacause \in {"ctx", "err"} => (saret = sasel /\ saret # "CloseErr")
        /\ saret = "CloseErr" => (sacause = "done" /\ saclose = "CloseErr")
        /\ (sacause = "done" /\ saclose = "CloseErr") => saret = "CloseErr"

\* C18 witness: Run was ended by cancellation, the Job's Close failed, and Run
\* returned the cancellation error.
C18_Witness ==
    /\ sapc = "returned" /\ sacause = "ctx"
    /\ saclose = "CloseErr" /\ saret = "Canceled"

\* C19: when Run has returned, the factory was called once and a Job that has
\* a Close was closed exactly once.
C19_Original ==
    sapc = "returned" =>
        /\ jobsMade = 1
        /\ jkind \in {"Closer", "ioCloser"} => jclosed = 1

\* C25: when Run has returned an error chosen by its select and the Job's
\* Close returned an error too, Run's result is the first error and the close
\* error is in the log.
C25_Original ==
    (sapc = "returned" /\ sacause # "none" /\ sasel # "nil"
        /\ saclose = "CloseErr") =>
        (saret = sasel /\ "CloseErr" \in salog)

\* The executions that can take a step: inside job.Run (which terminates), or
\* at errCh <- err with room in the buffer.
CanMove ==
    {k \in Execs : epc[k] = "running" \/ (epc[k] = "sending" /\ errCh = "none")}

\* C26: Run is never blocked for ever after its select: while it waits at
\* <-ctx2.Done() for the executions to end, either all of them have ended or
\* one of them can still take a step (errCh is read no more and the cron
\* starts no execution after Stop, so otherwise Run never returns).
C26_Original ==
    sapc = "draining" => (Drained \/ CanMove # {})

\* The executions that have completed errCh <- err.
Sent == {k \in Execs : epc[k] = "done" /\ eres[k] # "nil"}

\* C27: within one Run, at most one send of a Job error into errCh completes,
\* however many executions fail. (The done channel is closed once: a second
\* Close panics before it changes anything.)
C27_Original == Cardinality(Sent) <= 1

\* C33: once Run has stopped the cron on its way out, no execution of the Job
\* is started; in particular none is started once the Job's Close has been
\* invoked, when the cron is not running.
C33_NoStartAfterStop ==
    /\ [][(sapc \in {"draining", "returned"}) => ticks' = ticks]_vars
    /\ [][jclosed > 0 => (ticks' = ticks /\ epc' = epc)]_vars
    /\ [](jclosed > 0 => (~crRunning /\ ~ENABLED CrTick))

\* C33 witness: one execution was started and has ended, Run has closed the
\* Job and returned, and the schedule had more ticks to give.
C33_Witness ==
    /\ sapc = "returned" /\ jclosed = 1
    /\ ticks = 1 /\ epc[1] = "done" /\ ticks < MaxTicks

\* The Shutdown as above, and an activity of package cronjob on which Close
\* is called.
NextClose ==
    \/ NextSd
    \/ CrClose

SpecClose == Init /\ [][NextClose]_vars /\ FairSd

\* C29: on a Shutdown and on an activity of package cronjob alike, the first
\* Close closes the done channel and returns (nil) without a panic, and a
\* Close called after it finds the channel closed and panics: what a second
\* Close can do is panic, and nothing else.
C29_SecondClosePanics ==
    /\ []((sdCalled /\ ~sdPanic /\ ~killed) => ENABLED (SdClose /\ sdPanic'))
    /\ []((saDone /\ ~saPanic) => ENABLED (CrClose /\ saPanic'))
    /\ [][SdClose =>
            IF sdCalled THEN sdDone /\ sdPanic' ELSE sdDone' /\ ~sdPanic']_vars
    /\ [][CrClose =>
            IF saDone THEN saPanic' ELSE saDone' /\ ~saPanic']_vars

\* C29 witness: Close was called twice on the Shutdown and twice on the
\* activity, and the second call panicked on both.
C29_Witness ==
    /\ sdCalled /\ sdDone /\ sdPanic
    /\ saDone /\ saPanic

(***************************************************************************)
(* WorkerPool (package pool; modelled from sections 4.5 and 5 of the       *)
(* specification and from TestTimeout)                                     *)
(***************************************************************************)
\* The submissions whose task is executing in the pool.
Executing == {u \in Subs : ppc[u] = "running"}

\* A slot of a pool of capacity n is free.
HasSlotAlways(n, busy) == TRUE
HasSlot(n, busy) == busy < n

\* Which Schedule call is made next: the calls are numbered in call order.
NextSub(u) ==
    /\ ppc[u] = "none"
    /\ \A v \in Subs : v < u => ppc[v] # "none"

\* A context of the submission has ended: its own or the pool's parent.
ContextEndedAlways(u) == TRUE
ContextEnded(u) == psctx[u] # "nil" \/ plctx # "nil"

\* ctx.Err() of the context the task of the submission is invoked with.
TaskCtxErrNil(u) == "nil"
TaskCtxErr(u) == IF psctx[u] # "nil" THEN psctx[u] ELSE plctx

\* The submissions made so far.
Submitted == {u \in Subs : ppc[u] # "none"}

\* The task of the submission has returned.
TaskDone(u) == ppc[u] \in {"finished", "refused"}

\* Every task among the first k submissions has returned.
WaitDoneAlways(k) == TRUE
WaitDone(k) == \A u \in Subs : u <= k => TaskDone(u)

\* pool.New(ctx, pool.ConstantSize(n))
PlNew(n) ==
    /\ plN = 0
    /\ plN' = n
    /\ UNCHANGED <<plctx, ppc, psctx, pobs, pwpc, pwsnap>>
    /\ UNCHANGED notPl

\* Schedule(ctx, task) is called; c is ctx.Err() at the call.
PlSchedule(u, c) ==
    /\ plN > 0
    /\ NextSub(u)
    /\ ppc' = [ppc EXCEPT ![u] = "blocked"]
    /\ psctx' = [psctx EXCEPT ![u] = c]
    /\ UNCHANGED <<plN, plctx, pobs, pwpc, pwsnap>>
    /\ UNCHANGED notPl

\* A slot is free: the submission is admitted and its task starts.
PlAdmit(u) ==
    /\ ppc[u] = "blocked"
    /\ HasSlot(plN, Cardinality(Executing))
    /\ ppc' = [ppc EXCEPT ![u] = "running"]
    /\ pobs' = [pobs EXCEPT ![u] = TaskCtxErr(u)]
    /\ UNCHANGED <<plN, plctx, psctx, pwpc, pwsnap>>
    /\ UNCHANGED notPl

\* The blocked Schedule call ends because its ctx or the parent context of
\* the pool has ended; the task is invoked with the ended context.
PlGiveUp(u) ==
    /\ ppc[u] = "blocked"
    /\ ContextEnded(u)
    /\ ppc' = [ppc EXCEPT ![u] = "ended"]
    /\ pobs' = [pobs EXCEPT ![u] = TaskCtxErr(u)]
    /\ UNCHANGED <<plN, plctx, psctx, pwpc, pwsnap>>
    /\ UNCHANGED notPl

\* The task of an admitted submission returns: its slot is free again.
PlFinish(u) ==
    /\ ppc[u] = "running"
    /\ ppc' = [ppc EXCEPT ![u] = "finished"]
    /\ UNCHANGED <<plN, plctx, psctx, pobs, pwpc, pwsnap>>
    /\ UNCHANGED notPl

\* The task that was invoked with an ended context returns.
PlEndedReturn(u) ==
    /\ ppc[u] = "ended"
    /\ ppc' = [ppc EXCEPT ![u] = "refused"]
    /\ UNCHANGED <<plN, plctx, psctx, pobs, pwpc, pwsnap>>
    /\ UNCHANGED notPl

\* The ctx of a submission that is blocked or running ends (by cancel, or by
\* the deadline WithTimeout gave it).
PlCtxEnd(u, e) ==
    /\ ppc[u] \in {"blocked", "running"}
    /\ psctx[u] = "nil"
    /\ e # "nil"
    /\ psctx' = [psctx EXCEPT ![u] = e]
    /\ UNCHANGED <<plN, plctx, ppc, pobs, pwpc, pwsnap>>
    /\ UNCHANGED notPl

\* The parent context of the pool ends.
PlParentEnd(e) ==
    /\ plN > 0
    /\ plctx = "nil"
    /\ e # "nil"
    /\ plctx' = e
    /\ UNCHANGED <<plN, ppc, psctx, pobs, pwpc, pwsnap>>
    /\ UNCHANGED notPl

\* The wait function of WithWait is called.
PlWaitCall ==
    /\ plN > 0
    /\ pwpc = "idle"
    /\ pwpc' = "waiting"
    /\ pwsnap' = Cardinality(Submitted)
    /\ UNCHANGED <<plN, plctx, ppc, psctx, pobs>>
    /\ UNCHANGED notPl

\* The wait function returns.
PlWaitReturn ==
    /\ pwpc = "waiting"
    /\ WaitDone(pwsnap)
    /\ pwpc' = "returned"
    /\ UNCHANGED <<plN, plctx, ppc, psctx, pobs, pwsnap>>
    /\ UNCHANGED notPl

NextPl ==
    \/ \E n \in 1..MaxPoolSize : PlNew(n)
    \/ \E u \in Subs, c \in CtxErrs : PlSchedule(u, c)
    \/ \E u \in Subs : PlAdmit(u)
    \/ \E u \in Subs : PlGiveUp(u)
    \/ \E u \in Subs : PlFinish(u)
    \/ \E u \in Subs : PlEndedReturn(u)
    \/ \E u \in Subs, e \in CtxErrs : PlCtxEnd(u, e)
    \/ \E e \in CtxErrs : PlParentEnd(e)
    \/ PlWaitCall
    \/ PlWaitReturn

\* The wait function returns when nothing is left to wait for.
FairPl == WF_vars(PlWaitReturn)

SpecPl == Init /\ [][NextPl]_vars /\ FairPl

C21_ScheduleBlocks ==
    /\ [][\A u \in Subs :
            (ppc[u] = "blocked" /\ ppc'[u] # "blocked") =>
                \/ ppc'[u] = "running" /\ Cardinality(Executing) < plN
                \/ ppc'[u] = "ended"
                     /\ (psctx[u] # "nil" \/ plctx # "nil")]_vars
    /\ [](\A u \in Subs :
            ppc[u] \in {"ended", "refused"} =>
                (psctx[u] # "nil" \/ plctx # "nil"))
    /\ [](\A u \in Subs :
            (ppc[u] = "blocked" /\ Cardinality(Executing) >= plN
               /\ psctx[u] = "nil" /\ plctx = "nil") =>
                ~ENABLED (PlAdmit(u) \/ PlGiveUp(u)))
    /\ [](\A u \in Subs :
            (ppc[u] = "blocked" /\ Cardinality(Executing) < plN) =>
                ENABLED PlAdmit(u))

\* C21 witness: while one task executes, the Schedule call of another
\* submission has ended because its ctx was cancelled.
C21_Witness ==
    \E u, v \in Subs :
        /\ ppc[u] = "running"
        /\ ppc[v] = "ended" /\ psctx[v] = "Canceled"
        /\ plctx = "nil"

\* C22: the wait function returns only when every task submitted before the
\* wait call has returned, and once they all have it does return.
C22_WaitAll ==
    /\ [](pwpc = "returned" =>
            \A u \in Subs : u <= pwsnap => ppc[u] \in {"finished", "refused"})
    /\ (pwpc = "waiting"
          /\ \A u \in Subs : u <= pwsnap => ppc[u] \in {"finished", "refused"})
         ~> (pwpc = "returned")

\* C22 witness: wait was called after two submissions and has returned; one
\* task had been admitted, the other was invoked with its ended context.
C22_Witness ==
    /\ pwpc = "returned" /\ pwsnap = 2
    /\ ppc[1] = "finished" /\ ppc[2] = "refused"

Ctx2Done == atctx # "nil" \/ atcancel

\* A changed TaskRunner: the error of the task is returned to Loop.
TaskRunnerPropagates(res) == IF res = "nil" THEN "nil" ELSE "Other"

\* The runner handed to at.Loop: whatever at.f returned (after the sleep of
\* the error case) it returns nil, to keep the task running.
TaskRunner(res) == "nil"

\* Run is called with ctx (live or done already): ctx2 is derived, the
\* Shutdown is made and the goroutine of shutdown.Run is started.
AtRun(n, c) ==
    /\ atpc = "idle"
    /\ atpc' = "spawning"
    /\ atN' = n
    /\ atctx' = c
    /\ atsd' = "start"
    /\ UNCHANGED <<atcancel, atwg, atloops, rpc, aterr, atreg, atchan,
                   atgot, atkilled, atcloses>>
    /\ UNCHANGED notAt

\* shutdown.Run, up to its select: signal.Notify(c, ...).
AtNotify ==
    /\ ~atkilled
    /\ atsd = "start"
    /\ atsd' = "select"
    /\ atreg' = TRUE
    /\ UNCHANGED <<atpc, atN, atctx, atcancel, atwg, atloops, rpc, aterr,
                   atchan, atgot, atkilled, atcloses>>
    /\ UNCHANGED notAt

\* A termination signal is sent to the process: with no channel registered the
\* default action ends the process; otherwise the signal goes to the channel
\* unless that is full or no longer read.
AtSignal ==
    /\ ~atkilled
    /\ atpc # "idle"
    /\ IF atreg
         THEN /\ atchan' = (atchan \/ atsd = "select")
              /\ UNCHANGED atkilled
         ELSE /\ atkilled' = TRUE
              /\ UNCHANGED atchan
    /\ UNCHANGED <<atpc, atN, atctx, atcancel, atwg, atloops, rpc, aterr,
                   atsd, atreg, atgot, atcloses>>
    /\ UNCHANGED notAt

\* The ctx handed to Run is cancelled or reaches its deadline.
AtCtxEnd(e) ==
    /\ ~atkilled
    /\ atpc # "idle"
    /\ atctx = "nil"
    /\ e # "nil"
    /\ atctx' = e
    /\ UNCHANGED <<atpc, atN, atcancel, atwg, atloops, rpc, aterr, atsd,
                   atreg, atchan, atgot, atkilled, atcloses>>
    /\ UNCHANGED notAt

\* shutdown.Run: case sig := <-c, signal.Reset, return of the signal error.
AtSelectSignal ==
    /\ ~atkilled
    /\ atsd = "select"
    /\ atchan
    /\ atchan' = FALSE
    /\ atgot' = TRUE
    /\ atreg' = (SignalReset({1}) # {})
    /\ atsd' = "erred"
    /\ UNCHANGED <<atpc, atN, atctx, atcancel, atwg, atloops, rpc, aterr,
                   atkilled, atcloses>>
    /\ UNCHANGED notAt

\* shutdown.Run: case <-ctx.Done(): return ctx.Err()
AtSelectCtx ==
    /\ ~atkilled
    /\ atsd = "select"
    /\ Ctx2Done
    /\ atsd' = "erred"
    /\ UNCHANGED <<atpc, atN, atctx, atcancel, atwg, atloops, rpc, aterr,
                   atreg, atchan, atgot, atkilled, atcloses>>
    /\ UNCHANGED notAt

\* shutdown.Run: case <-s.done: return nil; the goroutine ends without
\* cancel().
AtSelectDone ==
    /\ ~atkilled
    /\ atsd = "select"
    /\ atcloses > 0
    /\ atsd' = "ended"
    /\ UNCHANGED <<atpc, atN, atctx, atcancel, atwg, atloops, rpc, aterr,
                   atreg, atchan, atgot, atkilled, atcloses>>
    /\ UNCHANGED notAt

\* if err := shutdown.Run(ctx2); err != nil { cancel() }
AtCancel ==
    /\ ~atkilled
    /\ atsd = "erred"
    /\ atcancel' = TRUE
    /\ atsd' = "ended"
    /\ UNCHANGED <<atpc, atN, atctx, atwg, atloops, rpc, aterr, atreg,
                   atchan, atgot, atkilled, atcloses>>
    /\ UNCHANGED notAt

\* One iteration of for i := 0; i < at.replicas; i++: at.Loop(ctx2, ...),
\* which is WaitGroup.Add(1) and the go statement.
AtLoop ==
    /\ ~atkilled
    /\ atpc = "spawning"
    /\ atloops < atN
    /\ atloops' = atloops + 1
    /\ atwg' = WaitGroupAdd(atwg)
    /\ rpc' = [rpc EXCEPT ![atloops + 1] = "head"]
    /\ UNCHANGED <<atpc, atN, atctx, atcancel, aterr, atsd, atreg,
                   atchan, atgot, atkilled, atcloses>>
    /\ UNCHANGED notAt

\* The for loop ends and at.Wait() is called.
AtWaitCall ==
    /\ ~atkilled
    /\ atpc = "spawning"
    /\ atloops = atN
    /\ atpc' = "waiting"
    /\ UNCHANGED <<atN, atctx, atcancel, atwg, atloops, rpc, aterr,
                   atsd, atreg, atchan, atgot, atkilled, atcloses>>
    /\ UNCHANGED notAt

\* at.Wait() returns: the counter is zero.
AtWaitReturn ==
    /\ ~atkilled
    /\ atpc = "waiting"
    /\ atwg = 0
    /\ atpc' = "closing"
    /\ UNCHANGED <<atN, atctx, atcancel, atwg, atloops, rpc, aterr,
                   atsd, atreg, atchan, atgot, atkilled, atcloses>>
    /\ UNCHANGED notAt

\* shutdown.Close(ctx), and Run returns.
AtClose ==
    /\ ~atkilled
    /\ atpc = "closing"
    /\ atcloses' = atcloses + 1
    /\ atpc' = "returned"
    /\ UNCHANGED <<atN, atctx, atcancel, atwg, atloops, rpc, aterr,
                   atsd, atreg, atchan, atgot, atkilled>>
    /\ UNCHANGED notAt

\* The goroutine of a replica, for ctx.Err() == nil: one evaluation of the
\* condition on ctx2.
AtLoopCheck(i) ==
    /\ ~atkilled
    /\ rpc[i] = "head"
    /\ rpc' = [rpc EXCEPT ![i] = IF Ctx2Done THEN "exiting" ELSE "checked"]
    /\ UNCHANGED <<atpc, atN, atctx, atcancel, atwg, atloops, aterr,
                   atsd, atreg, atchan, atgot, atkilled, atcloses>>
    /\ UNCHANGED notAt

\* The runner is called and calls at.f().
AtInvoke(i) ==
    /\ ~atkilled
    /\ rpc[i] = "checked"
    /\ rpc' = [rpc EXCEPT ![i] = "running"]
    /\ UNCHANGED <<atpc, atN, atctx, atcancel, atwg, atloops, aterr, atsd,
                   atreg, atchan, atgot, atkilled, atcloses>>
    /\ UNCHANGED notAt

\* at.f() returns res (after an error the runner sleeps for a second), the
\* runner returns, and Loop's run closure decides whether the loop goes on.
AtTaskReturn(i, res) ==
    /\ ~atkilled
    /\ rpc[i] = "running"
    /\ aterr' = (aterr \/ res # "nil")
    /\ rpc' = [rpc EXCEPT ![i] = AfterHandle("loop", TaskRunner(res))]
    /\ UNCHANGED <<atpc, atN, atctx, atcancel, atwg, atloops, atsd,
                   atreg, atchan, atgot, atkilled, atcloses>>
    /\ UNCHANGED notAt

\* defer t.WaitGroup.Done(): the goroutine of the replica ends.
AtExit(i) ==
    /\ ~atkilled
    /\ rpc[i] = "exiting"
    /\ rpc' = [rpc EXCEPT ![i] = "done"]
    /\ atwg' = WaitGroupDone(atwg)
    /\ UNCHANGED <<atpc, atN, atctx, atcancel, atloops, aterr, atsd,
                   atreg, atchan, atgot, atkilled, atcloses>>
    /\ UNCHANGED notAt

\* The steps of the goroutine that called Run.
AtMain ==
    \/ AtLoop
    \/ AtWaitCall
    \/ AtWaitReturn
    \/ AtClose

\* The steps of the goroutine of shutdown.Run.
AtShutdown ==
    \/ AtNotify
    \/ AtSelectSignal
    \/ AtSelectCtx
    \/ AtSelectDone
    \/ AtCancel

\* The steps of the goroutine of replica i, the call of the task included.
AtReplica(i) ==
    \/ AtLoopCheck(i)
    \/ AtInvoke(i)
    \/ \E res \in {"nil", "err"} : AtTaskReturn(i, res)
    \/ AtExit(i)

NextAt ==
    \/ \E n \in 0..MaxReplicas, c \in CtxErrs : AtRun(n, c)
    \/ AtSignal
    \/ \E e \in CtxErrs : AtCtxEnd(e)
    \/ AtMain
    \/ AtShutdown
    \/ \E i \in Replicas : AtReplica(i)

\* Every goroutine that can take a step takes it in the end, and every call
\* of the task returns.
FairAt ==
    /\ WF_vars(AtMain)
    /\ WF_vars(AtShutdown)
    /\ \A i \in Replicas : WF_vars(AtReplica(i))

SpecAt == Init /\ [][NextAt]_vars /\ FairAt

(***************************************************************************)
(* AsyncTask: the properties                                               *)
(***************************************************************************)
\* A shutdown signal has reached the Shutdown, or the ctx handed to Run is
\* done.
AtStopped == atchan \/ atgot \/ atctx # "nil"

LogLevelDebug(on) == "Debug"

\* if !sa.debugLevelOn { logLevel = logrus.DebugLevel } else { logLevel =
\* logrus.InfoLevel }
LogLevel(on) == IF ~on THEN "Debug" ELSE "Info"

\* The process and the activity are in use: no signal has ended the process
\* and no Close has panicked.
LsAlive == ~lskilled /\ ~lsPanic

\* Run is called (the one before has returned) with ctx live or done, up to
\* the for loop: c is made and registered for sa.signal.
LsRun(c) ==
    /\ LsAlive
    /\ lspc \in {"idle", "returned"}
    /\ lsruns < MaxRuns
    /\ lsruns' = lsruns + 1
    /\ lsctx' = c
    /\ lschan' = FALSE
    /\ lsreg' = TRUE
    /\ lscause' = "none"
    /\ lsret' = "none"
    /\ lspc' = "select"
    /\ UNCHANGED <<lsDone, lsPanic, lson, lslast, lsn, lssent, lskilled>>
    /\ UNCHANGED notLs

\* sa.signal is sent to the process: with no channel registered its default
\* action ends the process; otherwise it goes to c unless c is full or Run
\* has returned.
LsSignal ==
    /\ LsAlive
    /\ lssent < MaxSignals
    /\ lssent' = lssent + 1
    /\ IF lsreg
         THEN /\ lschan' = (lschan \/ lspc = "select")
              /\ UNCHANGED lskilled
         ELSE /\ lskilled' = TRUE
              /\ UNCHANGED lschan
    /\ UNCHANGED <<lspc, lsruns, lsctx, lsDone, lsPanic, lson, lslast, lsn,
                   lsreg, lscause, lsret>>
    /\ UNCHANGED notLs

\* The ctx of the Run call is cancelled or reaches its deadline.
LsCtxEnd(e) ==
    /\ LsAlive
    /\ lspc = "select"
    /\ lsctx = "nil"
    /\ e # "nil"
    /\ lsctx' = e
    /\ UNCHANGED <<lspc, lsruns, lsDone, lsPanic, lson, lslast, lsn, lssent,
                   lsreg, lschan, lskilled, lscause, lsret>>
    /\ UNCHANGED notLs

\* Close: close(s.done), which panics when the channel is closed already.
LsClose ==
    /\ LsAlive
    /\ IF lsDone
         THEN lsPanic' = ClosePanics(lsDone) /\ UNCHANGED lsDone
         ELSE lsDone' = CloseChan(lsDone) /\ UNCHANGED lsPanic
    /\ UNCHANGED <<lspc, lsruns, lsctx, lson, lslast, lsn, lssent, lsreg,
                   lschan, lskilled, lscause, lsret>>
    /\ UNCHANGED notLs

\* case <-c: the level is chosen, debugLevelOn is negated, logger.SetLevel is
\* called, and the loop goes back to the select.
LsHandle ==
    /\ LsAlive
    /\ lspc = "select"
    /\ lschan
    /\ lschan' = FALSE
    /\ lslast' = LogLevel(lson)
    /\ lson' = ~lson
    /\ lsn' = lsn + 1
    /\ UNCHANGED <<lspc, lsruns, lsctx, lsDone, lsPanic, lssent, lsreg,
                   lskilled, lscause, lsret>>
    /\ UNCHANGED notLs

\* case <-ctx.Done(): return ctx.Err()
LsSelectCtx ==
    /\ LsAlive
    /\ lspc = "select"
    /\ lsctx # "nil"
    /\ lscause' = "ctx"
    /\ lsret' = lsctx
    /\ lspc' = "returned"
    /\ UNCHANGED <<lsruns, lsctx, lsDone, lsPanic, lson, lslast, lsn, lssent,
                   lsreg, lschan, lskilled>>
    /\ UNCHANGED notLs

\* case <-sa.done: return nil
LsSelectDone ==
    /\ LsAlive
    /\ lspc = "select"
    /\ lsDone
    /\ lscause' = "done"
    /\ lsret' = "nil"
    /\ lspc' = "returned"
    /\ UNCHANGED <<lsruns, lsctx, lsDone, lsPanic, lson, lslast, lsn, lssent,
                   lsreg, lschan, lskilled>>
    /\ UNCHANGED notLs

\* One pass of the select of Run.
LsSelect == LsHandle \/ LsSelectCtx \/ LsSelectDone

NextLs ==
    \/ \E c \in CtxErrs : LsRun(c)
    \/ LsSignal
    \/ \E e \in CtxErrs : LsCtxEnd(e)
    \/ LsClose
    \/ LsSelect

\* A select with a ready case proceeds.
FairLs == WF_vars(LsSelect)

SpecLs == Init /\ [][NextLs]_vars /\ FairLs

(***************************************************************************)
(* loglevelswitcher.ServiceActivity: the properties                        *)
(***************************************************************************)
\* C36: the level last set is Debug after an odd number of handled signals
\* and Info after an even one (none before the first); handling a signal
\* leaves Run in its loop; a Run that has returned took the ctx case and
\* returned the error of its done ctx, or took the done case, after Close, and
\* returned nil; and a Run whose ctx is done or whose activity is closed
\* returns.
C36_Toggle ==
    /\ [](lslast = (IF lsn = 0 THEN "none"
                    ELSE IF lsn % 2 = 1 THEN "Debug" ELSE "Info"))
    /\ [](lson <=> lsn % 2 = 1)
    /\ [][lsn' # lsn => (lsn' = lsn + 1 /\ lspc = "select" /\ lspc' = "select")]_vars
    /\ [](lspc = "returned" =>
            \/ lscause = "ctx" /\ lsret = lsctx
                  /\ lsret \in {"Canceled", "DeadlineExceeded"}
            \/ lscause = "done" /\ lsret = "nil" /\ lsDone)
    /\ (lspc = "select" /\ (lsctx # "nil" \/ lsDone)) ~>
            (lspc = "returned" \/ ~LsAlive)

\* C36 witness: two signals were handled, the level last set is Info, and Run
\* has returned nil after Close.
C36_Witness ==
    /\ lsn = 2 /\ lslast = "Info" /\ ~lson
    /\ lspc = "returned" /\ lsret = "nil" /\ lscause = "done"

====
